---- MODULE Spec2Model ----
(***************************************************************************)
(* A model of the CHECK_PLEASE backend (src/backend): the chat handler and *)
(* its session store (main.py), the tiered query pipeline                  *)
(* (agent_core_simple.py, agent_core.py), the fetchers (tools.py), the     *)
(* batch loader (load_academic_data_clean.py) and the CV markdown parser   *)
(* (pdf_generator.py).                                                     *)
(*                                                                         *)
(* Texts are TLA+ strings and the Python string operations the code uses   *)
(* (split, join, strip, lower, slicing, "in", the regular expressions) are *)
(* operators over their characters.                                        *)
(***************************************************************************)
EXTENDS Naturals, Sequences, FiniteSets, TLC

VARIABLES
  conversation_sessions,  \* main.py: session id -> list of turns
  stored,                 \* every store_conversation call so far, in arrival order
  clock,                  \* the value datetime.now() gives the next stored turn
  reply,                  \* what the last /api/chat request returned
  run,                    \* the last pipeline run (inputs, fetch log, context, response)
  loader,                 \* load_academic_data_clean.py: scraped_urls and the fetch log
  rs,                     \* the last call of _resolve_pronouns_in_query
  pp,                     \* the last post-processing call (filter / dedup)
  cv,                     \* the last call of parse_markdown_cv
  fetch,                  \* one call of a fetcher (tools.py), from the call to its return
  proc,                   \* a process of the backend: its environment, how far its start got, the requests served
  tasks,                  \* the chat requests being handled on the event loop, each at a statement of handle_chat_query
  gen,                    \* the CV request: generate_cv with use_crewai
  pdfs,                   \* the shared collection, the module global _current_session_id, and the last uploaded-document search
  cls,                    \* one call of SimpleRAG._detect_query_type
  prompt,                 \* the fetched text a tier places in its prompt (SpecPrompt)
  pdf,                    \* a call of create_cv_pdf and the story it renders (SpecRender)
  info                    \* the last request and, of a session read, its response (SpecSession)

vars == <<conversation_sessions, stored, clock, reply, run, loader, rs, pp, cv,
         fetch, proc, tasks, gen, pdfs, cls, prompt, pdf, info>>

----------------------------------------------------------------------------
(* Python strings *)

NL == "\n"

UpperChars == {"A","B","C","D","E","F","G","H","I","J","K","L","M",
               "N","O","P","Q","R","S","T","U","V","W","X","Y","Z"}
LowerChars == {"a","b","c","d","e","f","g","h","i","j","k","l","m",
               "n","o","p","q","r","s","t","u","v","w","x","y","z"}
DigitChars == {"0","1","2","3","4","5","6","7","8","9"}
\* str.strip() and \s: the whitespace that occurs in the modelled texts
SpaceChars == {" ", "\n", "\t", "\r"}
\* \w of the re module (ASCII texts)
WordChars  == UpperChars \cup LowerChars \cup DigitChars \cup {"_"}

\* The element of a one-element set. Only({F(x) : x \in {e}}) is F(e) with e
\* evaluated once, however often F uses it.
Only(S) == CHOOSE x \in S : TRUE

CharAt(s, i) == SubSeq(s, i, i)

\* the characters of s
CharsOf(s) == {CharAt(s, i) : i \in 1..Len(s)}

LowerOf ==
  [c \in UpperChars |->
     CASE c = "A" -> "a" [] c = "B" -> "b" [] c = "C" -> "c" [] c = "D" -> "d"
       [] c = "E" -> "e" [] c = "F" -> "f" [] c = "G" -> "g" [] c = "H" -> "h"
       [] c = "I" -> "i" [] c = "J" -> "j" [] c = "K" -> "k" [] c = "L" -> "l"
       [] c = "M" -> "m" [] c = "N" -> "n" [] c = "O" -> "o" [] c = "P" -> "p"
       [] c = "Q" -> "q" [] c = "R" -> "r" [] c = "S" -> "s" [] c = "T" -> "t"
       [] c = "U" -> "u" [] c = "V" -> "v" [] c = "W" -> "w" [] c = "X" -> "x"
       [] c = "Y" -> "y" [] c = "Z" -> "z"]
LowerChar(c) == IF c \in UpperChars THEN LowerOf[c] ELSE c

\* str.lower()
RECURSIVE LowerRange(_, _, _)
LowerRange(s, lo, hi) ==
  IF lo > hi THEN ""
  ELSE IF lo = hi THEN LowerChar(CharAt(s, lo))
  ELSE LowerRange(s, lo, (lo + hi) \div 2) \o LowerRange(s, ((lo + hi) \div 2) + 1, hi)
Lower(s) == Only({LowerRange(t, 1, Len(t)) : t \in {s}})

\* str.upper()
UpperChar(c) == IF c \in LowerChars THEN CHOOSE u \in UpperChars : LowerOf[u] = c ELSE c
RECURSIVE UpperRange(_, _, _)
UpperRange(s, lo, hi) ==
  IF lo > hi THEN ""
  ELSE IF lo = hi THEN UpperChar(CharAt(s, lo))
  ELSE UpperRange(s, lo, (lo + hi) \div 2) \o UpperRange(s, ((lo + hi) \div 2) + 1, hi)
Upper(s) == Only({UpperRange(t, 1, Len(t)) : t \in {s}})

\* s[:n] and s[n:] of Python (n >= 0)
Prefix(s, n) == SubSeq(s, 1, IF n < Len(s) THEN n ELSE Len(s))
DropPrefix(s, n) == SubSeq(s, n + 1, Len(s))

\* p occurring in s at position i, and s.startswith(p)
MatchAt(s, p, i) == i >= 1 /\ i + Len(p) - 1 <= Len(s) /\ SubSeq(s, i, i + Len(p) - 1) = p
StartsWith(s, p) == MatchAt(s, p, 1)

\* p in s
Contains(s, p) == \E t \in {s} : \E i \in 1..(Len(t) + 1) : MatchAt(t, p, i)

\* any(p in s for p in phrases)
ContainsAny(s, phrases) == \E t \in {s} : \E p \in phrases : Contains(t, p)

\* str.strip(): from the first to the last character that is not whitespace
RECURSIVE FirstNonSpace(_, _)
FirstNonSpace(s, i) ==
  IF i <= Len(s) /\ CharAt(s, i) \in SpaceChars THEN FirstNonSpace(s, i + 1) ELSE i
RECURSIVE LastNonSpace(_, _)
LastNonSpace(s, i) ==
  IF i >= 1 /\ CharAt(s, i) \in SpaceChars THEN LastNonSpace(s, i - 1) ELSE i
Strip(s) == Only({SubSeq(t, FirstNonSpace(t, 1), LastNonSpace(t, Len(t))) : t \in {s}})

\* the positions lo..hi of s that hold a character of the set seps, ascending
RECURSIVE SepPositions(_, _, _, _)
SepPositions(s, seps, lo, hi) ==
  IF lo > hi THEN <<>>
  ELSE IF lo = hi THEN (IF CharAt(s, lo) \in seps THEN <<lo>> ELSE <<>>)
  ELSE SepPositions(s, seps, lo, (lo + hi) \div 2)
       \o SepPositions(s, seps, ((lo + hi) \div 2) + 1, hi)

\* s cut at the positions pos, the characters there left out
PartsAt(s, pos) ==
  [k \in 1..(Len(pos) + 1) |->
     SubSeq(s, IF k = 1 THEN 1 ELSE pos[k - 1] + 1,
               IF k > Len(pos) THEN Len(s) ELSE pos[k] - 1)]
CutAt(s, seps) == Only({PartsAt(s, pos) : pos \in {SepPositions(s, seps, 1, Len(s))}})

\* s.split(sep) for a one-character sep: never empty, "" gives [""]
Split(s, sep) == Only({CutAt(t, {sep}) : t \in {s}})

\* sep.join(parts)
RECURSIVE JoinRange(_, _, _, _)
JoinRange(parts, sep, lo, hi) ==
  IF lo > hi THEN ""
  ELSE IF lo = hi THEN parts[lo]
  ELSE JoinRange(parts, sep, lo, (lo + hi) \div 2) \o sep
       \o JoinRange(parts, sep, ((lo + hi) \div 2) + 1, hi)
Join(parts, sep) == Only({JoinRange(q, sep, 1, Len(q)) : q \in {parts}})

\* [p for p in parts if p]
RECURSIVE NonEmptyFrom(_, _)
NonEmptyFrom(parts, i) ==
  IF i > Len(parts) THEN <<>>
  ELSE (IF parts[i] # "" THEN <<parts[i]>> ELSE <<>>) \o NonEmptyFrom(parts, i + 1)
NonEmpty(parts) == Only({NonEmptyFrom(q, 1) : q \in {parts}})

\* s.split(): the whitespace-separated words, none of them empty
Words(s) == Only({NonEmpty(CutAt(t, SpaceChars)) : t \in {s}})

SeqToSet(q) == {q[i] : i \in 1..Len(q)}

\* q[-n:], q[:n] and reversed(q)
LastN(q, n) == IF Len(q) <= n THEN q ELSE SubSeq(q, Len(q) - n + 1, Len(q))
FirstN(q, n) == SubSeq(q, 1, IF Len(q) > n THEN n ELSE Len(q))
Reverse(q) == [i \in 1..Len(q) |-> q[Len(q) + 1 - i]]

\* the concatenation of a sequence of sequences
RECURSIVE FlattenFrom(_, _)
FlattenFrom(qq, i) == IF i > Len(qq) THEN <<>> ELSE qq[i] \o FlattenFrom(qq, i + 1)
Flatten(qq) == Only({FlattenFrom(q, 1) : q \in {qq}})

SetMax(S) == CHOOSE x \in S : \A y \in S : y <= x
SetMin(S) == CHOOSE x \in S : \A y \in S : x <= y

----------------------------------------------------------------------------
(* The regular expressions of the re module, as far as the code uses them.  *)
(* A pattern is a sequence of items; a position is the index of the next    *)
(* character to match (1..Len+1); Ends is the set of positions a match      *)
(* starting at a position can end at. re.IGNORECASE is matching a           *)
(* lower-case pattern against Lower(s).                                     *)

\* the most repetitions of + and *: more than any text is long
Unbounded == 1000000

Lit(S)          == [t |-> "lit", a |-> S,  sub |-> <<>>, lo |-> 1, hi |-> 1]  \* (?:x|y)
Cls(S)          == [t |-> "cls", a |-> S,  sub |-> <<>>, lo |-> 1, hi |-> 1]  \* [..]
WB              == [t |-> "wb",  a |-> {}, sub |-> <<>>, lo |-> 1, hi |-> 1]  \* \b
Rep(sub, lo, hi) == [t |-> "rep", a |-> {}, sub |-> sub, lo |-> lo, hi |-> hi]
Opt(sub)        == Rep(sub, 0, 1)                                             \* (..)?
Star(sub)       == Rep(sub, 0, Unbounded)                                     \* (..)*
Plus(sub)       == Rep(sub, 1, Unbounded)                                     \* (..)+
Ws1             == Plus(<<Cls(SpaceChars)>>)                                  \* \s+
Ws0             == Star(<<Cls(SpaceChars)>>)                                  \* \s*
Digits1         == Plus(<<Cls(DigitChars)>>)                                  \* \d+
NotNL(s)        == Cls(CharsOf(s) \ {NL})                                     \* [^\n]
AnyChar(s)      == Cls(CharsOf(s))                                            \* [\s\S]
AnyChars(s)     == Star(<<NotNL(s)>>)                                         \* .*
CapWord         == <<Cls(UpperChars), Plus(<<Cls(LowerChars)>>)>>             \* [A-Z][a-z]+

IsWordAt(s, i) == i >= 1 /\ i <= Len(s) /\ CharAt(s, i) \in WordChars
AtWordBoundary(s, i) == IsWordAt(s, i - 1) # IsWordAt(s, i)

RECURSIVE EndsSeq(_, _, _, _)
RECURSIVE RepEnds(_, _, _, _, _)

\* the positions item it can end at, starting at position i
EndsItem(s, it, i) ==
  CASE it.t = "lit" -> {i + Len(x) : x \in {y \in it.a : MatchAt(s, y, i)}}
    [] it.t = "cls" -> IF i <= Len(s) /\ CharAt(s, i) \in it.a THEN {i + 1} ELSE {}
    [] it.t = "wb"  -> IF AtWordBoundary(s, i) THEN {i} ELSE {}
    [] it.t = "rep" -> RepEnds(s, it, {i}, 0, {})

\* items k.. of a pattern, from any position of P
EndsSeq(s, items, k, P) ==
  IF k > Len(items) \/ P = {} THEN P
  ELSE Only({EndsSeq(s, items, k + 1, Q) :
               Q \in {UNION {EndsItem(s, items[k], i) : i \in P}}})

\* a repeated group: P after n rounds, acc the ends collected so far
RepEnds(s, it, P, n, acc) ==
  IF P = {} \/ n > it.hi THEN acc
  ELSE Only({RepEnds(s, it, x[1], n + 1, x[2]) :
               x \in {<<EndsSeq(s, it.sub, 1, P), IF n >= it.lo THEN acc \cup P ELSE acc>>}})

Ends(s, items, i) == EndsSeq(s, items, 1, {i})

\* the positions of s where a match of the pattern starts
MatchStarts(s, items) ==
  Only({{i \in 1..(Len(t) + 1) : Ends(t, its, i) # {}} : t \in {s}, its \in {items}})

\* re.search(pattern, s) is not None
Search(s, items) == MatchStarts(s, items) # {}

\* the leftmost of the starts that is >= from, 0 when none
NextStart(starts, from) ==
  Only({IF later = {} THEN 0 ELSE SetMin(later) : later \in {{i \in starts : i >= from}}})

\* where the (greedy) match starting at i ends
MatchEnd(s, items, i) == SetMax(Ends(s, items, i))

\* the matches of the pattern in s from left to right, not overlapping, as
\* <<start, end>>; ends[i] is where the match starting at i ends
RECURSIVE MatchesFrom(_, _, _)
MatchesFrom(starts, ends, from) ==
  IF NextStart(starts, from) = 0 THEN <<>>
  ELSE Only({<<<<b, ends[b]>>>> \o MatchesFrom(starts, ends, IF ends[b] > b THEN ends[b] ELSE b + 1) :
               b \in {NextStart(starts, from)}})
GreedyMatches(s, items) ==
  Only({MatchesFrom(starts, [i \in starts |-> SetMax(Ends(s, items, i))], 1) :
          starts \in {MatchStarts(s, items)}})
LazyMatches(s, items) ==
  Only({MatchesFrom(starts, [i \in starts |-> SetMin(Ends(s, items, i))], 1) :
          starts \in {MatchStarts(s, items)}})

\* re.findall(pre + "(" + grp + ")", s): the group of each match; pre is a
\* literal prefix outside the group
FindAll(s, pre, grp) ==
  Only({[k \in 1..Len(ms) |-> SubSeq(t, MatchEnd(t, pre, ms[k][1]), ms[k][2] - 1)] :
          t \in {s}, ms \in {GreedyMatches(s, pre \o grp)}})

\* re.search(pre + "(" + grp + ")", t): the group of the leftmost match as
\* a list of one, read from s (t is s, or s in lower case under
\* re.IGNORECASE); <<>> without a match
SearchGroup(s, t, pre, grp) ==
  Only({IF ms = <<>> THEN <<>>
        ELSE <<SubSeq(s, MatchEnd(t, pre, ms[1][1]), ms[1][2] - 1)>> :
          ms \in {GreedyMatches(t, pre \o grp)}})

\* s with the text of each match replaced by repl
RECURSIVE Replaced(_, _, _, _, _)
Replaced(s, ms, repl, k, from) ==
  IF k > Len(ms) THEN SubSeq(s, from, Len(s))
  ELSE SubSeq(s, from, ms[k][1] - 1) \o repl \o Replaced(s, ms, repl, k + 1, ms[k][2])

\* re.sub(pattern, repl, s), re.sub(..., flags=re.IGNORECASE), and re.sub
\* with a pattern whose repetition is lazy ([\s\S]*?), where a match ends at
\* the first position it can
ReSub(items, repl, s) ==
  Only({Replaced(t, ms, repl, 1, 1) : t \in {s}, ms \in {GreedyMatches(s, items)}})
ReSubIgnoreCase(items, repl, s) ==
  Only({Replaced(t, ms, repl, 1, 1) : t \in {s}, ms \in {GreedyMatches(Lower(s), items)}})
ReSubLazyIgnoreCase(items, repl, s) ==
  Only({Replaced(t, ms, repl, 1, 1) : t \in {s}, ms \in {LazyMatches(Lower(s), items)}})

\* how often x occurs in a sequence
RECURSIVE CountIn(_, _)
CountIn(q, x) ==
  IF Len(q) = 0 THEN 0 ELSE (IF q[1] = x THEN 1 ELSE 0) + CountIn(Tail(q), x)

----------------------------------------------------------------------------
(* Post-processing of a response: agent_core.py and agent_core_simple.py *)

\* U+2022, the bullet of the scraped listings (TLA+ strings are ASCII)
Bullet == "@"

\* agent_core.py:426-440, matched with re.IGNORECASE: the patterns are
\* lower-case and [A-Z] is any letter
family_patterns == <<
  <<Lit({"born on", "lahir pada", "tanggal lahir", "tanggal lahir:"}), Ws1, Cls(DigitChars)>>,
  <<Lit({"married to", "menikah dengan"}), Ws1, Cls(LowerChars)>>,
  <<Lit({"has", "memiliki"}), Ws1, Digits1, Ws1, Lit({"children", "anak"})>>,
  <<Lit({"son", "daughter", "putra", "putri"}), Ws1, Lit({"named", "bernama"})>>,
  <<Lit({"family member", "anggota keluarga"})>>,
  <<Lit({"personal life", "kehidupan pribadi"})>>,
  <<Lit({"his", "her"}), Ws1, Lit({"wife", "husband", "spouse", "istri", "suami"})>>,
  <<Lit({"wife", "husband", "spouse", "istri", "suami"}), Ws1, Lit({"is", "named", "bernama"})>> >>

\* agent_core.py:456-462
professional_keywords == {
  "professor", "lecturer", "director", "chairperson", "chair",
  "cio", "head", "dean", "coordinator", "secretary", "member",
  "founder", "president", "vice", "assistant", "associate",
  "dosen", "guru besar", "ketua", "sekretaris",
  "koordinator", "anggota", "reviewer", "committee", "board" }

is_family_info(line) ==
  \E k \in 1..Len(family_patterns) : Search(Lower(line), family_patterns[k])

has_professional_keyword(line) ==
  \E kw \in professional_keywords : Contains(Lower(line), kw)

\* agent_core.py:469-472: whether _filter_personal_info keeps the line
HybridKeepsLine(line) == ~(is_family_info(line) /\ ~has_professional_keyword(line))

\* agent_core.py:445-472: the lines kept, in order
RECURSIVE HybridFilterLines(_)
HybridFilterLines(lines) ==
  IF Len(lines) = 0 THEN <<>>
  ELSE (IF HybridKeepsLine(lines[1]) THEN <<lines[1]>> ELSE <<>>)
       \o HybridFilterLines(Tail(lines))

\* HybridRAG._filter_personal_info
HybridRAG_filter_personal_info(text) == Join(HybridFilterLines(Split(text, NL)), NL)

\* agent_core_simple.py:308-312
personal_keywords == {"born on", "tanggal lahir", "married to", "menikah dengan",
                      "has children", "memiliki anak"}

\* agent_core_simple.py:319-325: whether _filter_personal_info keeps the line
SimpleKeepsLine(line) == ~(\E kw \in personal_keywords : Contains(Lower(line), kw))

\* agent_core_simple.py:317-325: the lines kept, in order
RECURSIVE SimpleFilterLines(_)
SimpleFilterLines(lines) ==
  IF Len(lines) = 0 THEN <<>>
  ELSE (IF SimpleKeepsLine(lines[1]) THEN <<lines[1]>> ELSE <<>>)
       \o SimpleFilterLines(Tail(lines))

\* SimpleRAG._filter_personal_info
SimpleRAG_filter_personal_info(text) == Join(SimpleFilterLines(Split(text, NL)), NL)

\* agent_core.py:480-482
SafetyLimit == 8000
TruncationMarker == "\n\n[Output truncated for safety]"
MaxOccurrences == 2

\* agent_core.py:485-496: the lines kept, seen the stripped non-blank lines so far
RECURSIVE SafetyDedupLines(_, _)
SafetyDedupLines(lines, seen) ==
  IF Len(lines) = 0 THEN <<>>
  ELSE IF Strip(lines[1]) = "" THEN SafetyDedupLines(Tail(lines), seen)
  ELSE (IF CountIn(seen, Strip(lines[1])) + 1 <= MaxOccurrences THEN <<lines[1]>> ELSE <<>>)
       \o SafetyDedupLines(Tail(lines), Append(seen, Strip(lines[1])))

\* HybridRAG._safety_check
HybridRAG_safety_check(output) ==
  Join(SafetyDedupLines(
         Split(IF Len(output) > SafetyLimit
               THEN Prefix(output, SafetyLimit) \o TruncationMarker
               ELSE output, NL),
         <<>>), NL)

\* agent_core_simple.py:361-370
RECURSIVE GentleDedupLines(_, _)
GentleDedupLines(lines, seen_lines) ==
  IF Len(lines) = 0 THEN <<>>
  ELSE IF ~StartsWith(Strip(lines[1]), Bullet) /\ ~StartsWith(Strip(lines[1]), "-")
       THEN <<lines[1]>> \o GentleDedupLines(Tail(lines), seen_lines)
  ELSE IF Strip(lines[1]) \notin seen_lines
       THEN <<lines[1]>> \o GentleDedupLines(Tail(lines), seen_lines \cup {Strip(lines[1])})
  ELSE GentleDedupLines(Tail(lines), seen_lines)

\* SimpleRAG._deduplicate_gentle
SimpleRAG_deduplicate_gentle(text) == Join(GentleDedupLines(Split(text, NL), {}), NL)

----------------------------------------------------------------------------
(* The context resolver: HybridRAG._resolve_pronouns_in_query *)

\* agent_core.py:162-163
pronouns == {"his", "her", "their", "him", "them", "he", "she", "they",
             "nya", "dia", "beliau", "tersebut"}

\* [A-Z][a-z]+(?: [A-Z][a-z]+)*
NameWords == CapWord \o <<Star(<<Lit({" "})>> \o CapWord)>>

\* agent_core.py:182-191: each pattern as (literal prefix, group)
name_patterns == <<
  <<  <<Lit({"who is "})>>,     NameWords >>,
  <<  <<Lit({"siapa itu "})>>,  NameWords >>,
  <<  <<Lit({"about "})>>,      NameWords >>,
  <<  <<Lit({"tentang "})>>,    NameWords >>,
  <<  <<>>, <<Lit({"Prof.", "Prof", "Dr.", "Dr", "Ir.", "Ir"}), Ws1>> \o CapWord
              \o <<Plus(<<Lit({" "})>> \o CapWord)>> >>,
  <<  <<>>, <<WB>> \o CapWord \o <<Lit({" "})>> \o CapWord
              \o <<Opt(<<Ws1>> \o CapWord), Opt(<<Ws1>> \o CapWord), WB>> >> >>

\* agent_core.py:198
not_names == {"About", "More About", "Information"}

\* agent_core.py:196-199: the matches that count as names
RECURSIVE ValidNames(_)
ValidNames(matches) ==
  IF Len(matches) = 0 THEN <<>>
  ELSE (IF Len(Strip(matches[1])) > 3 /\ Strip(matches[1]) \notin not_names
        THEN <<Strip(matches[1])>> ELSE <<>>) \o ValidNames(Tail(matches))

\* agent_core.py:175-179
combined_text(msg) == msg.user \o " " \o msg.assistant

\* agent_core.py:193-199, for one message
NamesInText(text) ==
  Flatten([k \in 1..Len(name_patterns) |->
             ValidNames(FindAll(text, name_patterns[k][1], name_patterns[k][2]))])

\* how many of the latest messages are scanned (agent_core.py:173)
HistoryWindow == 4

\* agent_core.py:171-199
extracted_names(conversation_history) ==
  Flatten([i \in 1..Len(Reverse(LastN(conversation_history, HistoryWindow))) |->
             NamesInText(combined_text(Reverse(LastN(conversation_history, HistoryWindow))[i]))])

\* a faulty detection, which looks for a pronoun anywhere in the text rather
\* than among its tokens
PronounAnywhere(query) == ContainsAny(Lower(query), pronouns)

\* agent_core.py:165
has_pronoun(query) == \E w \in SeqToSet(Words(Lower(query))) : w \in pronouns

\* agent_core.py:218-219: the pronouns replaced one after the other
RECURSIVE ReplacePronouns(_, _, _)
ReplacePronouns(text, prons, target_name) ==
  IF Len(prons) = 0 THEN text
  ELSE ReplacePronouns(ReSubIgnoreCase(<<WB, Lit({prons[1]}), WB>>, target_name, text),
                       Tail(prons), target_name)

\* agent_core.py:213-228
substitute(query, target_name) ==
  IF ContainsAny(Lower(query), {"about him", "about her", "about them"})
  THEN ReSubIgnoreCase(<<Lit({"about "}), Lit({"him", "her", "them"})>>,
                       "about " \o target_name, query)
  ELSE IF ContainsAny(Lower(query), {"find more about", "more about", "tell me about"})
  THEN ReplacePronouns(query, <<"him", "her", "them", "his", "their">>, target_name)
  ELSE IF ContainsAny(Lower(query), {"his research", "her research"})
  THEN ReSubIgnoreCase(<<Lit({"his", "her"}), Lit({" research"})>>,
                       target_name \o "'s research", query)
  ELSE IF ContainsAny(Lower(query), {"his publication", "her publication"})
  THEN ReSubIgnoreCase(<<Lit({"his", "her"}), Lit({" publication"})>>,
                       target_name \o "'s publications", query)
  ELSE query \o " (referring to " \o target_name \o ")"

\* HybridRAG._resolve_pronouns_in_query
resolve_pronouns_in_query(query, conversation_history) ==
  IF Len(conversation_history) = 0 THEN query
  ELSE IF ~has_pronoun(query) THEN query
  ELSE Only({IF Len(names) = 0 THEN query ELSE substitute(query, names[1]) :
               names \in {extracted_names(conversation_history)}})

----------------------------------------------------------------------------
(* The query classifier: SimpleRAG._detect_query_type *)

\* (all|of)?\s*(the)?\s* between "list" and the noun
ListOf == <<WB, Lit({"list"}), Ws1, Opt(<<Lit({"all", "of"})>>), Ws0,
            Opt(<<Lit({"the"})>>), Ws0>>

\* agent_core_simple.py:99-109, for the query q
simple_list_patterns(q) == <<
  ListOf \o <<Lit({"lecturer"}), Opt(<<Lit({"s"})>>)>>,
  ListOf \o <<Lit({"professor"}), Opt(<<Lit({"s"})>>)>>,
  ListOf \o <<Lit({"faculty"})>>,
  ListOf \o <<Lit({"staff"})>>,
  ListOf \o <<Lit({"dosen"})>>,
  <<WB, Lit({"give"}), Ws1, Lit({"me"}), Ws1, AnyChars(q), WB, Lit({"list"}), WB,
    AnyChars(q), WB, Lit({"lecturer"}), Opt(<<Lit({"s"})>>)>>,
  <<WB, Lit({"show"}), Ws1, Lit({"me"}), Ws1, AnyChars(q), WB, Lit({"lecturer"}),
    Opt(<<Lit({"s"})>>)>>,
  <<WB, Lit({"siapa"}), Ws1, Lit({"saja"}), Ws1, Lit({"dosen"})>>,
  <<WB, Lit({"daftar"}), Ws1, Lit({"dosen"})>> >>

\* agent_core_simple.py:116-122
basic_lookup_patterns == <<
  <<WB, Lit({"who"}), Ws1, Lit({"is"}), WB>>,
  <<WB, Lit({"siapa"}), Ws1, Opt(<<Lit({"itu"})>>), WB>>,
  <<WB, Lit({"tell"}), Ws1, Lit({"me"}), Ws1, Lit({"about"}), WB>>,
  <<WB, Lit({"information"}), Ws1, Lit({"about"}), WB>>,
  <<WB, Lit({"profile"}), Ws1, Lit({"of"}), WB>> >>

\* agent_core_simple.py:125
has_person_name(query) ==
  Search(query, <<WB>> \o CapWord \o <<Plus(<<Ws1>> \o CapWord), WB>>)

\* SimpleRAG._detect_query_type
detect_query_type(query) ==
  IF \E k \in 1..Len(simple_list_patterns(Lower(query))) :
       Search(Lower(query), simple_list_patterns(Lower(query))[k])
  THEN "SIMPLE_LIST"
  ELSE IF \E k \in 1..Len(basic_lookup_patterns) :
            Search(Lower(query), basic_lookup_patterns[k]) \/ has_person_name(query)
  THEN "BASIC_LOOKUP"
  ELSE "COMPLEX"

----------------------------------------------------------------------------
(* The fetchers: tools.py. What the outside world answers is an input:     *)
(*   db  = [kind |-> "ok", docs |-> the content of each document found]    *)
(*       | [kind |-> "error", error |-> the exception text]                *)
(*       | [kind |-> "no_embeddings"]      (tools.py:26-33, embeddings None) *)
(*   web = a function from URL to [kind |-> "page", text |-> page_content] *)
(*       | [kind |-> "nodocs"] | [kind |-> "error", error |-> text]        *)
(* Non-ASCII symbols of the messages are left out.                         *)

\* tools.py:119, 163, 169
EmbeddingsMissingText == "Error: Embedding model failed to initialize."
NoRelevantText ==
  "No relevant information found in database. RECOMMENDATION: Use 'Web Search Tool' to find information on the web."
DatabaseErrorText(e) ==
  "Database error: " \o e \o ". RECOMMENDATION: Use 'Web Search Tool' as fallback."

\* AcademicSearchTool._run
AcademicSearchTool_run(query, db) ==
  IF db.kind = "no_embeddings" THEN EmbeddingsMissingText
  ELSE IF db.kind = "error" THEN DatabaseErrorText(db.error)
  ELSE IF Join(NonEmpty(db.docs), "\n---\n") = "" THEN NoRelevantText
  ELSE Join(NonEmpty(db.docs), "\n---\n")

\* whether the search found documents: it neither failed nor came back empty
AcademicSearchSucceeded(db) == db.kind = "ok" /\ Join(NonEmpty(db.docs), "\n---\n") # ""

\* tools.py:193: [url.strip() for url in urls.split(',') if url.strip()]
RECURSIVE StripAll(_)
StripAll(parts) ==
  IF Len(parts) = 0 THEN <<>> ELSE <<Strip(parts[1])>> \o StripAll(Tail(parts))
url_list(urls) == NonEmpty(StripAll(Split(urls, ",")))

\* tools.py:199: at most this many URLs of one call are scraped
MaxUrlsPerCall == 3

\* tools.py:216: re.sub(r'<[^>]*>', '', page_content)
StripTags(text) ==
  ReSub(<<Lit({"<"}), Star(<<Cls(CharsOf(text) \ {">"})>>), Lit({">"})>>, "", text)

\* tools.py:218-225: split_text and chunks[:3], for a page shorter than one
\* chunk (chunk_size 1000): the stripped text, or no chunk when it is blank
split_text(raw_text) == IF Strip(raw_text) = "" THEN <<>> ELSE <<Strip(raw_text)>>

\* tools.py:203: the pages that go to the staff-listing scraper
IsStaffPage(url) == Contains(url, "staff-pengajar")

\* tools.py:244-245
max_retries == 3
request_timeout == 30

\* tools.py:301-308: names cleaned with ' '.join(name.split()), kept when
\* longer than 10 characters and not seen before
RECURSIVE unique_names(_, _)
unique_names(faculty_names, seen) ==
  IF Len(faculty_names) = 0 THEN <<>>
  ELSE IF Join(Words(faculty_names[1]), " ") \notin seen
          /\ Len(Join(Words(faculty_names[1]), " ")) > 10
       THEN <<Join(Words(faculty_names[1]), " ")>>
            \o unique_names(Tail(faculty_names), seen \cup {Join(Words(faculty_names[1]), " ")})
       ELSE unique_names(Tail(faculty_names), seen)

\* tools.py:321-331: one bullet line for each name of the group
RECURSIVE BulletLines(_, _)
BulletLines(names, group) ==
  IF Len(names) = 0 THEN ""
  ELSE (IF   (group = "prof" /\ Contains(names[1], "Prof."))
          \/ (group = "dr" /\ Contains(names[1], "Dr.") /\ ~Contains(names[1], "Prof."))
          \/ (group = "other" /\ ~Contains(names[1], "Dr.") /\ ~Contains(names[1], "Prof."))
        THEN Bullet \o " " \o names[1] \o NL ELSE "")
       \o BulletLines(Tail(names), group)

\* tools.py:343-348: the lines of the page that are not navigation
RECURSIVE filtered_lines(_)
filtered_lines(lines) ==
  IF Len(lines) = 0 THEN <<>>
  ELSE (IF ~ContainsAny(Lower(lines[1]), {"beranda", "profil", "program", "mahasiswa",
                                          "riset", "publikasi", "kontak"})
           /\ Len(lines[1]) > 20
        THEN <<lines[1]>> ELSE <<>>) \o filtered_lines(Tail(lines))

\* tools.py:262-351: the text built from a page that was fetched; names are
\* the texts the three search strategies found, lines the text lines of the page
StaffPageText(url, names, lines) ==
  "\n\n=== Faculty Names from " \o url \o " ===\n\n" \o
  (IF Len(unique_names(names, {})) > 0
   THEN "**PROFESOR:**\n" \o BulletLines(unique_names(names, {}), "prof")
        \o "\n**DOKTOR/LEKTOR KEPALA:**\n" \o BulletLines(unique_names(names, {}), "dr")
        \o "\n**DOSEN:**\n" \o BulletLines(unique_names(names, {}), "other")
        \o "\nTotal found: " \o ToString(Len(unique_names(names, {}))) \o " faculty members\n"
   ELSE "Could not extract structured names. Returning full text content:\n\n"
        \o Join(FirstN(filtered_lines(NonEmpty(StripAll(lines))), 50), NL))

\* tools.py:364-367
StaffTimeoutText(url) ==
  "\n\n=== TIMEOUT Error: Website '" \o url \o "' too slow to respond (tried "
  \o ToString(max_retries) \o " times, max wait " \o ToString(request_timeout) \o "s) ===\n"
  \o "\n**FALLBACK DATA - Using cached/alternative source:**\n"
  \o "Website sedang lambat. Silakan coba lagi nanti atau kunjungi langsung: https://ee.ui.ac.id/staff-pengajar/\n"

\* DynamicWebScraperTool._scrape_ui_staff_page from attempt on; page.attempts
\* is what each HTTP request meets ("ok", "timeout", "http_error", "error").
\* The result: the text returned, the requests made and the sleeps between them.
RECURSIVE scrape_ui_staff_page(_, _, _)
scrape_ui_staff_page(url, page, attempt) ==
  IF page.attempts[attempt] = "ok"
  THEN [text |-> StaffPageText(url, page.names, page.lines), requests |-> 1, sleeps |-> <<>>]
  ELSE IF page.attempts[attempt] \in {"timeout", "http_error"} /\ attempt < max_retries
  THEN [text     |-> scrape_ui_staff_page(url, page, attempt + 1).text,
        requests |-> 1 + scrape_ui_staff_page(url, page, attempt + 1).requests,
        sleeps   |-> <<attempt * (IF page.attempts[attempt] = "timeout" THEN 5 ELSE 3)>>
                     \o scrape_ui_staff_page(url, page, attempt + 1).sleeps]
  ELSE [text |-> IF page.attempts[attempt] = "timeout" THEN StaffTimeoutText(url)
                 ELSE IF page.attempts[attempt] = "http_error"
                 THEN "\n\n=== HTTP Error scraping UI staff page " \o url \o ": "
                      \o page.error \o " ===\n"
                 ELSE "\n\n=== Unexpected error scraping UI staff page " \o url \o ": "
                      \o page.error \o " ===\n",
        requests |-> 1, sleeps |-> <<>>]

\* tools.py:363 and 381: the blocking sleep before the retry that follows the
\* attempt, attempt * 5 after a Timeout and attempt * 3 after another
\* RequestException
wait_time(outcome, attempt) == attempt * (IF outcome = "timeout" THEN 5 ELSE 3)

\* the text _scrape_ui_staff_page returns for the failure it gives up on
\* (tools.py:367-371, 376, 389)
StaffFailureText(url, page, outcome) ==
  IF outcome = "timeout" THEN StaffTimeoutText(url)
  ELSE IF outcome = "http_error"
  THEN "\n\n=== HTTP Error scraping UI staff page " \o url \o ": " \o page.error \o " ===\n"
  ELSE "\n\n=== Unexpected error scraping UI staff page " \o url \o ": " \o page.error \o " ===\n"

\* the except clauses give up by letting the exception of the last attempt go
StaffFailureRaises(f, outcome) ==
  IF outcome \in {"timeout", "http_error"} /\ f.attempt < max_retries
  THEN [f EXCEPT !.phase = "sleep",
                 !.sleeps = Append(@, wait_time(outcome, f.attempt)),
                 !.retried_after = Append(@, outcome)]
  ELSE [f EXCEPT !.phase = "raised"]

\* tools.py:357-393, the except clauses of an attempt: Timeout and
\* RequestException sleep and continue while attempt < max_retries and
\* return their text on the last attempt; any other exception returns at once
staff_failure(f, outcome) ==
  IF outcome \in {"timeout", "http_error"} /\ f.attempt < max_retries
  THEN [f EXCEPT !.phase = "sleep",
                 !.sleeps = Append(@, wait_time(outcome, f.attempt)),
                 !.retried_after = Append(@, outcome)]
  ELSE [f EXCEPT !.phase = "returned",
                 !.result = StaffFailureText(f.id, f.world, outcome)]

\* tools.py:247-393, one pass of the loop: the HTTP request of the attempt,
\* then the text of the page or the except clause of the failure
staff_attempt(f) ==
  IF f.world.attempts[f.attempt] = "ok"
  THEN [f EXCEPT !.requests = @ + 1, !.phase = "returned",
                 !.result = StaffPageText(f.id, f.world.names, f.world.lines)]
  ELSE staff_failure([f EXCEPT !.requests = @ + 1], f.world.attempts[f.attempt])

\* tools.py:365-366, 383-384: the sleep is over, continue with the next attempt
staff_retry(f) == [f EXCEPT !.phase = "request", !.attempt = @ + 1]

\* eng_ui_scraper.py:24-32: the page address made from the name
eng_ui_titles ==
  {"dr", "dr.", "eng", "eng.", "st", "st.", "mt", "mt.", "m.eng", "m.eng.",
   "phd", "phd.", "ph.d", "ph.d.", "prof", "prof."}
name_normalized(professor_name) ==
  Join(Words(ReSub(<<Ws1>>, " ",
                   ReSub(<<Cls(CharsOf(Lower(professor_name)) \ (LowerChars \cup SpaceChars))>>, "",
                         Lower(Strip(ReSubIgnoreCase(<<WB, Lit(eng_ui_titles), WB>>, "",
                                                     professor_name)))))), "-")
eng_ui_url(professor_name) ==
  "https://eng.ui.ac.id/personnel/" \o name_normalized(professor_name) \o "/"

\* tools.py:1088-1098: the first line of the text of the tool when the
\* scraper returns None, without its warning sign
EngUiNotFoundText(professor_name) ==
  "Personnel page not found for '" \o professor_name \o "' on eng.ui.ac.id"

\* eng_ui_scraper.py:127-167, format_eng_ui_data: data is what the scraper
\* read from the page (name, position, education); the bullet sign is "-"
format_eng_ui_data(data) ==
  Join(<<"=== ENG.UI.AC.ID PERSONNEL DATA ===\n">>
       \o (IF data.name # "" THEN <<"Name: " \o data.name>> ELSE <<>>)
       \o (IF data.position # "" THEN <<"Position: " \o data.position>> ELSE <<>>)
       \o (IF data.education # <<>>
           THEN <<"\nEducation:">> \o [i \in 1..Len(data.education) |-> "  - " \o data.education[i]]
           ELSE <<>>)
       \o <<"\nSource: " \o data.source_url>>, NL)

\* eng_ui_scraper.py:36-125 and tools.py:1085-1104: the one HTTP request of
\* scrape_eng_ui_personnel, to the address made before it, and what the tool
\* returns for it; a 404, any other status than 200, a timeout and any other
\* exception all give None at once
eng_ui_attempt(f) ==
  [f EXCEPT !.requests = @ + 1, !.phase = "returned",
            !.result = IF f.world.response = "200"
                       THEN format_eng_ui_data([f.world.data EXCEPT !.source_url = f.world.url])
                       ELSE EngUiNotFoundText(f.id)]

\* tools.py:201-230: what scraping one URL adds to the context
ScrapeOne(url, page) ==
  IF IsStaffPage(url) THEN scrape_ui_staff_page(url, page, 1).text
  ELSE IF page.kind = "error"
  THEN "\n\n=== Failed to scrape " \o url \o ": " \o page.error \o " ===\n"
  ELSE IF page.kind = "nodocs" THEN ""
  ELSE "\n\n=== Content from " \o url \o " ===\n"
       \o Join(FirstN(split_text(StripTags(page.text)), 3), NL)

\* whether the scrape of the URL fetched a page
ScrapeSucceeded(url, page) ==
  IF IsStaffPage(url) THEN \E k \in 1..max_retries :
                             /\ page.attempts[k] = "ok"
                             /\ \A j \in 1..(k - 1) : page.attempts[j] \in {"timeout", "http_error"}
  ELSE page.kind = "page"

\* tools.py:199-230: the context after the URLs of the list, in order
RECURSIVE ScrapeAll(_, _)
ScrapeAll(urls, web) ==
  IF Len(urls) = 0 THEN ""
  ELSE ScrapeOne(urls[1], web[urls[1]]) \o ScrapeAll(Tail(urls), web)

\* DynamicWebScraperTool._run
DynamicWebScraperTool_run(urls, web) ==
  IF Len(url_list(urls)) = 0 THEN "No valid URLs provided."
  ELSE IF ScrapeAll(FirstN(url_list(urls), MaxUrlsPerCall), web) = ""
  THEN "No content could be scraped from the provided URLs."
  ELSE ScrapeAll(FirstN(url_list(urls), MaxUrlsPerCall), web)

----------------------------------------------------------------------------
(* The tiered pipeline: agent_core.py (HybridRAG) and agent_core_simple.py *)
(* (SimpleRAG)                                                             *)

\* agent_core.py:845: (?i)final\s+answer[:\s]*
final_answer_marker ==
  <<Lit({"final"}), Ws1, Lit({"answer"}), Star(<<Cls(SpaceChars \cup {":"})>>)>>

\* the code fence of agent_core.py:856 and 861, three grave accents, which a
\* TLA+ string cannot hold
Fence == "~~~"

\* agent_core.py:853-862, for the text s; the third and the last are lazy
thinking_markers(s) == <<
  <<Lit({"thought"}), Ws0, Lit({NL}), Plus(<<NotNL(s)>>)>>,
  <<Lit({"action"}), Ws0, Lit({NL}), Plus(<<NotNL(s)>>)>>,
  <<Lit({"action input:"}), Ws0, Lit({NL}), Lit({Fence \o "json"}), Star(<<AnyChar(s)>>), Lit({Fence})>>,
  <<Lit({"observation"}), Ws0, Lit({NL}), Plus(<<NotNL(s)>>)>>,
  <<Lit({"i will "}), Lit({"now", "start", "begin"}), Plus(<<NotNL(s)>>)>>,
  <<Lit({"the "}), Lit({"user", "query"}), Lit({" "}), Lit({"is", "are"}), Lit({" "}),
    Lit({"asking", "requesting"}), Plus(<<NotNL(s)>>)>>,
  <<Lit({"i have gathered"}), Plus(<<NotNL(s)>>)>>,
  <<Lit({Fence \o "json"}), Star(<<AnyChar(s)>>), Lit({Fence})>> >>

\* agent_core.py:866: re.sub(marker, '', cleaned, flags=re.IGNORECASE) for marker k
RemoveMarker(text, k) ==
  IF k \in {3, 8}
  THEN ReSubLazyIgnoreCase(thinking_markers(Lower(text))[k], "", text)
  ELSE ReSubIgnoreCase(thinking_markers(Lower(text))[k], "", text)

\* agent_core.py:864-866: the markers k.. removed one after the other
RECURSIVE RemoveMarkers(_, _)
RemoveMarkers(text, k) ==
  IF k > Len(thinking_markers("")) THEN text
  ELSE CHOOSE r \in {RemoveMarkers(t, k + 1) : t \in {RemoveMarker(text, k)}} : TRUE

\* agent_core.py:873-881: the lines from the first one that starts with '*' or '#'
RECURSIVE AnswerLines(_)
AnswerLines(lines) ==
  IF Len(lines) = 0 THEN <<>>
  ELSE IF StartsWith(Strip(lines[1]), "*") \/ StartsWith(Strip(lines[1]), "#") THEN lines
  ELSE AnswerLines(Tail(lines))

\* HybridRAG._extract_final_answer_only
extract_final_answer_only(crewai_output) ==
  IF Contains(Lower(crewai_output), "final answer")
  THEN Only({Strip(SubSeq(t, ms[Len(ms)][2], Len(t))) :
               t \in {crewai_output},
               ms \in {GreedyMatches(Lower(crewai_output), final_answer_marker)}})
  ELSE Only({IF Len(AnswerLines(Split(cleaned, NL))) > 0
             THEN Strip(Join(AnswerLines(Split(cleaned, NL)), NL))
             ELSE Strip(cleaned) :
               cleaned \in {RemoveMarkers(crewai_output, 1)}})

\* agent_core.py:498-515, for the query
HybridRAG_emergency_fallback(query) ==
  "I encountered an error while processing your request.\n\n"
  \o "**Your query:** \"" \o query \o "\"\n\n"
  \o "**Possible solutions:**\n"
  \o "1. Try rephrasing your question more specifically\n"
  \o "2. Ask about a specific person or topic\n"
  \o "3. Check if the information exists in our database\n\n"
  \o "**What I can help with:**\n"
  \o "- Academic profiles of UI Electrical Engineering faculty\n"
  \o "- Research information from SINTA/Google Scholar\n"
  \o "- Generate CV for specific professors\n"
  \o "- List faculty members\n\n"
  \o "Please try again with a more specific question!"

\* agent_core_simple.py:374-381, for the query
SimpleRAG_emergency_fallback(query) ==
  "I encountered an error processing your request: \"" \o query \o "\"\n\n"
  \o "Please try:\n"
  \o "1. Rephrasing your question\n"
  \o "2. Being more specific\n"
  \o "3. Asking about a particular person or topic"

\* one invocation of a fetcher: which one, on which identifier (query or URL),
\* whether it fetched anything, and the text it returned
FetchEntry(fetcher, id, ok, text) ==
  [fetcher |-> fetcher, id |-> id, ok |-> ok, text |-> text]

\* HybridRAG._vector_search and SimpleRAG._vector_search: the tool's answer
\* (the tool catches its own errors, tools.py:167-169)
vector_search(query, db) == AcademicSearchTool_run(query, db)

\* agent_core.py:533-539: one entry of scraped_content for each URL
RECURSIVE scraped_content(_, _)
scraped_content(urls, web) ==
  IF Len(urls) = 0 THEN <<>>
  ELSE <<"From " \o urls[1] \o ":\n" \o DynamicWebScraperTool_run(urls[1], web) \o NL>>
       \o scraped_content(Tail(urls), web)

\* HybridRAG._scrape_urls
scrape_urls(urls, web) == Join(scraped_content(urls, web), NL)

\* the fetcher invocations of _scrape_urls, one for each URL of the list
ScrapeLog(urls, web) ==
  [i \in 1..Len(urls) |->
     FetchEntry("dynamic_web_scraper_tool", urls[i], ScrapeSucceeded(urls[i], web[urls[i]]),
                DynamicWebScraperTool_run(urls[i], web))]

\* agent_core.py:131-141: the lines of one stored turn
RECURSIVE HistoryLines(_)
HistoryLines(history) ==
  IF Len(history) = 0 THEN <<>>
  ELSE <<"User: " \o history[1].user, "Assistant: " \o Prefix(history[1].assistant, 500)>>
       \o HistoryLines(Tail(history))

\* HybridRAG._format_conversation_history
format_conversation_history(history) ==
  IF Len(history) = 0 THEN ""
  ELSE Join(<<"PREVIOUS CONVERSATION:">> \o HistoryLines(LastN(history, 6))
            \o <<"\n**IMPORTANT:** When the user says 'his/her/their', they are referring to the person mentioned in the previous conversation above.">>,
            NL)

\* HybridRAG._build_context
build_context(vector_results, scraped_data, conversation_context) ==
  Join((IF conversation_context # ""
        THEN <<"=== CONVERSATION CONTEXT ===\n" \o conversation_context \o NL>> ELSE <<>>)
       \o (IF vector_results # ""
           THEN <<"=== DATABASE RESULTS ===\n" \o vector_results \o NL>> ELSE <<>>)
       \o (IF scraped_data # ""
           THEN <<"=== SCRAPED WEB DATA ===\n" \o scraped_data \o NL>> ELSE <<>>),
       NL)

\* agent_core.py:108-111: the post-processing of HybridRAG.query
HybridRAG_post_processing(final_output) ==
  HybridRAG_safety_check(HybridRAG_filter_personal_info(final_output))

\* agent_core_simple.py:71-74: the post-processing of SimpleRAG.query
SimpleRAG_post_processing(result) ==
  SimpleRAG_deduplicate_gentle(SimpleRAG_filter_personal_info(result))

\* HybridRAG._run_crew: llm is what the language model does when the crew is
\* kicked off, [raised |-> TRUE] or [raised |-> FALSE, text |-> its output]
run_crew(query, llm) ==
  IF llm.raised THEN HybridRAG_emergency_fallback(query)
  ELSE extract_final_answer_only(llm.text)

\* HybridRAG.query (agent_core.py:44-123). world = [db, web, llm] is what the
\* database, the web and the language model answer during the run. The
\* result: the response, the context handed to synthesis, the log of fetcher
\* invocations, the steps taken, whether the emergency fallback was used.
HybridRAG_query(user_query, user_urls, conversation_history, session_id, world) ==
  LET processing_query ==
        IF Len(conversation_history) > 0
        THEN resolve_pronouns_in_query(user_query, conversation_history) ELSE user_query
      vector_results == vector_search(processing_query, world.db)
      scraped_data == IF Len(user_urls) > 0 THEN scrape_urls(user_urls, world.web) ELSE ""
      context == build_context(vector_results, scraped_data,
                               format_conversation_history(conversation_history))
  IN [pipeline      |-> "HybridRAG",
      query         |-> user_query,
      urls          |-> user_urls,
      history       |-> conversation_history,
      session_context |-> session_id,
      resolved      |-> processing_query,
      steps         |-> (IF Len(conversation_history) > 0 THEN <<"resolve_pronouns">> ELSE <<>>)
                        \o <<"vector_search">>
                        \o (IF Len(user_urls) > 0 THEN <<"scrape_urls">> ELSE <<>>)
                        \o <<"build_context", "run_crew", "filter_personal_info", "safety_check">>,
      fetch_log     |-> <<FetchEntry("academic_search_tool", processing_query,
                                     AcademicSearchSucceeded(world.db), vector_results)>>
                        \o (IF Len(user_urls) > 0 THEN ScrapeLog(user_urls, world.web) ELSE <<>>),
      context       |-> context,
      fallback      |-> world.llm.raised,
      raw           |-> run_crew(processing_query, world.llm),
      response      |-> HybridRAG_post_processing(run_crew(processing_query, world.llm))]

\* SimpleRAG._basic_lookup (agent_core_simple.py:219-283)
basic_lookup(query, vector_results, llm) ==
  IF llm.raised THEN "Based on database:\n\n" \o Prefix(vector_results, 1000)
  ELSE llm.text

\* every tier runs the tier-3 fetchers after the vector search
FetchLogAllTiers(query_type, first, complex_log) == <<first>> \o complex_log

\* agent_core_simple.py:51-70: the fetcher invocations of SimpleRAG.query, the
\* vector search of line 51 and, on tier 3, those of HybridRAG.query
SimpleRAG_fetch_log(query_type, first, complex_log) ==
  <<first>> \o (IF query_type = "COMPLEX" THEN complex_log ELSE <<>>)

\* SimpleRAG.query (agent_core_simple.py:39-87)
SimpleRAG_query(user_query, user_urls, conversation_history, world) ==
  LET vector_results == vector_search(user_query, world.db)
      query_type == detect_query_type(user_query)
      complex == HybridRAG_query(user_query, <<>>, conversation_history, "", world)
      result == IF query_type \in {"SIMPLE_LIST", "BASIC_LOOKUP"}
                THEN basic_lookup(user_query, vector_results, world.llm)
                ELSE complex.response
  IN [pipeline      |-> "SimpleRAG",
      query         |-> user_query,
      urls          |-> user_urls,
      history       |-> conversation_history,
      session_context |-> "",
      resolved      |-> IF query_type = "COMPLEX" THEN complex.resolved ELSE user_query,
      steps         |-> <<"vector_search", "detect_query_type">>
                        \o (IF query_type = "COMPLEX"
                            THEN <<"complex_query">> \o complex.steps ELSE <<"basic_lookup">>)
                        \o <<"filter_personal_info", "deduplicate_gentle">>,
      fetch_log     |-> SimpleRAG_fetch_log(query_type,
                          FetchEntry("academic_search_tool", user_query,
                                     AcademicSearchSucceeded(world.db), vector_results),
                          complex.fetch_log),
      context       |-> IF query_type = "COMPLEX" THEN complex.context
                        ELSE IF ContainsAny(Lower(user_query), {"list", "all", "daftar", "semua"})
                        THEN vector_results ELSE Prefix(vector_results, 3000),
      fallback      |-> IF query_type = "COMPLEX" THEN complex.fallback ELSE FALSE,
      raw           |-> result,
      response      |-> SimpleRAG_post_processing(result)]

----------------------------------------------------------------------------
(* The batch loader: load_academic_data_clean.py *)

\* load_academic_data_clean.py:228-234 and 241-244, in lower case
error_indicators == {"<!doctype html>", "<div class=\"error", "404", "not found", "error occurred"}
valid_indicators == {"prof", "dr.", "profesor", "lecture", "dosen", "research", "publikasi",
                     "departemen", "teknik elektro"}

\* load_academic_data_clean.py:247: the length a valid text exceeds
MinValidLength == 200

\* load_academic_data_clean.py:226-247
is_valid_content(text) ==
  \E text_lower \in {Lower(text)} :
    /\ ~ContainsAny(text_lower, error_indicators)
    /\ Cardinality({v \in valid_indicators : Contains(text_lower, v)}) >= 2
    /\ Len(text) > MinValidLength

\* load_academic_data_clean.py:267-268: tags removed, whitespace runs made one space
cleaned_text(page_content) == Join(Words(StripTags(page_content)), " ")

\* whether the page the loader got is one it accepts (lines 264-302)
LoaderAccepts(page) == page.kind = "page" /\ is_valid_content(cleaned_text(page.text))

\* load_academic_data_clean.py:249-313 with the loop step of lines 327-334:
\* scrape_page(url) for the next URL of all_sources, page being what the web
\* answers this time. A URL in scraped_urls is skipped; any other is fetched,
\* and marked as scraped when its content is valid (line 283).
scrape_page(url, page) ==
  IF url \in loader.scraped_urls
  THEN loader' = [loader EXCEPT !.idx = @ + 1, !.skipped_duplicates = @ + 1]
  ELSE loader' = [loader EXCEPT
         !.idx = @ + 1,
         !.log = Append(@, FetchEntry("WebBaseLoader", url, LoaderAccepts(page),
                                      IF page.kind = "page" THEN cleaned_text(page.text) ELSE "")),
         !.scraped_urls = IF LoaderAccepts(page) THEN @ \cup {url} ELSE @]

----------------------------------------------------------------------------
(* The CV markdown parser: pdf_generator.py, parse_markdown_cv. Of the      *)
(* record it fills, the name, the personal information, the research       *)
(* areas, the education list, the publications list and the SINTA score    *)
(* are modelled; the text holds no code fence (lines 67-68 leave it as is). *)

\* pdf_generator.py:76
invalid_phrases == {"not available", "information not available", "n/a", "none", "-"}

\* pdf_generator.py:74-78
is_valid_data(text) ==
  \E text_lower \in {Strip(Lower(text))} :
    text_lower # "" /\ Len(text_lower) > 3 /\ ~ContainsAny(text_lower, invalid_phrases)

\* re.sub(r'\*\*([^*]+)\*\*', r'\1', s): s from position from on, each match
\* ms[k] replaced by its text between the asterisks
RECURSIVE UnboldFrom(_, _, _, _)
UnboldFrom(s, ms, k, from) ==
  IF k > Len(ms) THEN SubSeq(s, from, Len(s))
  ELSE SubSeq(s, from, ms[k][1] - 1) \o SubSeq(s, ms[k][1] + 2, ms[k][2] - 3)
       \o UnboldFrom(s, ms, k + 1, ms[k][2])
Unbold(s) ==
  Only({UnboldFrom(t, ms, 1, 1) :
          t \in {s},
          ms \in {GreedyMatches(s, <<Lit({"**"}), Plus(<<Cls(CharsOf(s) \ {"*"})>>), Lit({"**"})>>)}})

\* pdf_generator.py:161: the section names under which publications are read
publication_sections == {"PUBLICATIONS", "PUBLICATIONS & SCHOLARLY WORKS"}

\* pdf_generator.py:170, 175: the length a publication entry exceeds
MinPublicationLength == 15

\* pdf_generator.py:167: re.match(r'^\d+\.', line)
IsNumbered(line) == Ends(line, <<Digits1, Lit({"."})>>, 1) # {}

\* pdf_generator.py:168: re.sub(r'^\d+\.\s*', '', line).strip()
DropNumber(line) ==
  Strip(DropPrefix(line, SetMax(Ends(line, <<Digits1, Lit({"."}), Ws0>>, 1)) - 1))

\* pdf_generator.py:167-176: the publication a line of the section gives, as a
\* list of none or one
publication_of(line) ==
  Only({IF is_valid_data(pub) /\ Len(pub) > MinPublicationLength THEN <<pub>> ELSE <<>> :
          pub \in {IF IsNumbered(line) THEN Unbold(DropNumber(line))
                   ELSE IF StartsWith(line, "- ") THEN Unbold(Strip(DropPrefix(line, 2)))
                   ELSE ""}})

\* pdf_generator.py:108-127: the bullet that fills each field of the
\* personal information
personal_prefixes ==
  [title |-> "- **Position", affiliation |-> "- **Affiliation",
   department |-> "- **Department", birth_info |-> "- **Born", email |-> "- **Email"]

\* line.split(':', 1)[1].strip() if ':' in line else ''
AfterColon(line) ==
  Only({IF Len(parts) < 2 THEN "" ELSE Strip(Join(Tail(parts), ":")) :
          parts \in {Split(line, ":")}})

\* pdf_generator.py:107-127: a line of the PERSONAL INFORMATION section
personal_line(line, st) ==
  Only({IF fields = {} \/ ~is_valid_data(AfterColon(line)) THEN st
        ELSE [st EXCEPT ![Only(fields)] = AfterColon(line)] :
          fields \in {{k \in DOMAIN personal_prefixes : StartsWith(line, personal_prefixes[k])}}})

\* pdf_generator.py:153, 178: the section names of the research areas and of
\* the metrics
research_sections == {"RESEARCH INTERESTS", "RESEARCH INTERESTS & EXPERTISE"}
metrics_sections == {"ACADEMIC METRICS", "ACADEMIC METRICS & IMPACT"}

\* pdf_generator.py:146: the section names of the positions
position_sections == {"CURRENT POSITIONS", "CURRENT POSITIONS & ROLES"}

\* pdf_generator.py:131-137: a line of the ACADEMIC BACKGROUND section, as a
\* list of none or one (the condition of line 131 holds in the whole section)
education_history_of(line) ==
  Only({IF StartsWith(line, "- **") /\ is_valid_data(edu) THEN <<edu>> ELSE <<>> :
          edu \in {Unbold(Strip(DropPrefix(line, 2)))}})

\* pdf_generator.py:147-151, 155-159: a line of the positions or of the
\* research section (the two are read alike), as a list of none or one
research_of(line) ==
  Only({IF StartsWith(line, "- ") /\ is_valid_data(research) THEN <<research>> ELSE <<>> :
          research \in {Unbold(Strip(DropPrefix(line, 2)))}})

\* pdf_generator.py:179-182: re.search(r'SINTA Score[:\s]+([0-9.]+)', line,
\* re.IGNORECASE) on a line that holds "sinta score:"; <<>> without a match
sinta_score_of(line) ==
  IF ~Contains(Lower(line), "sinta score:") THEN <<>>
  ELSE SearchGroup(line, Lower(line),
                   <<Lit({"sinta score"}), Plus(<<Cls({":"} \cup SpaceChars)>>)>>,
                   <<Plus(<<Cls(DigitChars \cup {"."})>>)>>)

\* pdf_generator.py:83-182: one stripped line; st holds the record and the
\* current section and subsection ("" for None)
parse_line(line, st) ==
  IF line = "" THEN st
  ELSE IF StartsWith(line, "# ") THEN [st EXCEPT !.name = Strip(DropPrefix(line, 2))]
  ELSE IF StartsWith(line, "## ")
  THEN [st EXCEPT !.current_section = Upper(Strip(DropPrefix(line, 3))),
                  !.current_subsection = ""]
  ELSE IF StartsWith(line, "### ")
  THEN [st EXCEPT !.current_subsection = Upper(Strip(DropPrefix(line, 4)))]
  ELSE IF st.current_section = "PERSONAL INFORMATION" THEN personal_line(line, st)
  ELSE IF st.current_section = "ACADEMIC BACKGROUND"
  THEN [st EXCEPT !.education = @ \o education_history_of(line)]
  ELSE IF st.current_section = "EDUCATION"
  THEN (IF StartsWith(line, "- ") /\ is_valid_data(Strip(DropPrefix(line, 2)))
        THEN [st EXCEPT !.education = Append(@, Strip(DropPrefix(line, 2)))] ELSE st)
  ELSE IF st.current_section \in position_sections
  THEN [st EXCEPT !.positions = @ \o research_of(line)]
  ELSE IF st.current_section \in research_sections
  THEN [st EXCEPT !.research_areas = @ \o research_of(line)]
  ELSE IF st.current_section \in publication_sections
  THEN [st EXCEPT !.publications = @ \o publication_of(line)]
  ELSE IF st.current_section \in metrics_sections
  THEN (IF sinta_score_of(line) = <<>> THEN st
        ELSE [st EXCEPT !.sinta_score = sinta_score_of(line)[1]])
  ELSE st

\* pdf_generator.py:82-84: the lines from i on, one after the other
RECURSIVE parse_lines(_, _, _)
parse_lines(lines, i, st) ==
  IF i > Len(lines) THEN st
  ELSE Only({parse_lines(lines, i + 1, next) : next \in {parse_line(Strip(lines[i]), st)}})

\* pdf_generator.py:49-65: the record before the first line, and
\* parse_cv_data's at lines 326-339
default_affiliation == "Universitas Indonesia"
default_department == "Departemen Teknik Elektro"
cv_data_start(name, title) ==
  [name |-> name, title |-> title, affiliation |-> default_affiliation,
   department |-> default_department, email |-> "", birth_info |-> "",
   research_areas |-> <<>>, education |-> <<>>, positions |-> <<>>,
   publications |-> <<>>,
   sinta_score |-> "", current_section |-> "", current_subsection |-> ""]

\* parse_markdown_cv(markdown_text)
parse_markdown_cv(markdown_text) ==
  parse_lines(Split(markdown_text, NL), 1, cv_data_start("Unknown", ""))

----------------------------------------------------------------------------
(* The CV generator: cv_agent.py, simplified_cv_generation, and            *)
(* pdf_generator.py, parse_cv_data. The tools other than the database      *)
(* search feed only the prompt of the model call; the reply of the model   *)
(* call is an input. The request carries no session id, so there is no     *)
(* conversation context (main.py:292-294).                                 *)

\* cv_agent.py:53, pdf_generator.py:344:
\* (?:Prof\.\s*)?(?:Dr\.\s*)?(?:Ir\.\s*)?([A-Z][a-z]+(?:\s+[A-Z][a-z]+)+)
titled_name ==
  <<Opt(<<Lit({"Prof."}), Ws0>>), Opt(<<Lit({"Dr."}), Ws0>>), Opt(<<Lit({"Ir."}), Ws0>>)>>
  \o CapWord \o <<Plus(<<Ws1>> \o CapWord)>>

\* re.search(pattern, text).group(0), "" without a match
SearchText(text, items) ==
  Only({IF ms = <<>> THEN "" ELSE SubSeq(text, ms[1][1], ms[1][2] - 1) :
          ms \in {GreedyMatches(text, items)}})

\* cv_agent.py:68-74
research_patterns ==
  <<"Protocol Engineering", "Computer Network", "IoT", "ICT implementation",
    "University ranking">>

\* cv_agent.py:75-77: the patterns found in the text, in the order of the list
RECURSIVE research_found(_, _)
research_found(text_lower, i) ==
  IF i > Len(research_patterns) THEN <<>>
  ELSE (IF Contains(text_lower, Lower(research_patterns[i]))
        THEN <<research_patterns[i]>> ELSE <<>>) \o research_found(text_lower, i + 1)

\* extract_key_info(text): the keys the generator reads
extract_key_info(text) ==
  Only({[name |-> SearchText(text, titled_name),
         birth |-> IF birth = <<>> THEN "" ELSE birth[1],
         sinta_score |-> IF sinta = <<>> THEN "" ELSE sinta[1],
         research_areas |-> research_found(Lower(text), 1)] :
          birth \in {SearchGroup(text, Lower(text),
                                 <<Lit({"lahir", "born"}), Opt(<<Ws0, Lit({":"})>>), Ws0>>,
                                 <<Plus(<<Cls(CharsOf(Lower(text)) \ {",", NL})>>), Lit({","}), Ws0,
                                   Rep(<<Cls(DigitChars)>>, 4, 4)>>)},
          sinta \in {SearchGroup(text, text,
                                 <<Lit({"SINTA Score"}), Plus(<<Cls({":"} \cup SpaceChars)>>)>>,
                                 <<Digits1, Opt(<<Lit({"."})>>), Star(<<Cls(DigitChars)>>)>>)}})

\* dict.get(key, default)
raw_info_get(raw_info, key, default) ==
  IF key \in DOMAIN raw_info THEN raw_info[key] ELSE default

\* cv_agent.py:552-568: the text written when the model call fails
NotAvailable == "Not available"
fallback_position == "Professor"
fallback_sinta_profile == "https://sinta.kemdiktisaintek.go.id/authors/profile/5977168"
fallback_cv(professor_name, raw_info) ==
  "# " \o raw_info_get(raw_info, "name", professor_name) \o "\n\n"
  \o "## PERSONAL INFORMATION\n"
  \o "- Position: " \o fallback_position \o "\n"
  \o "- Affiliation: " \o default_affiliation \o "\n"
  \o "- Born: " \o raw_info_get(raw_info, "birth", NotAvailable) \o "\n\n"
  \o "## RESEARCH INTERESTS\n"
  \o Join([i \in 1..Len(raw_info_get(raw_info, "research_areas", <<NotAvailable>>)) |->
             "- " \o raw_info_get(raw_info, "research_areas", <<NotAvailable>>)[i]], NL)
  \o "\n\n"
  \o "## ACADEMIC METRICS\n"
  \o "- SINTA Score: " \o raw_info_get(raw_info, "sinta_score", NotAvailable) \o "\n\n"
  \o "## EXTERNAL PROFILES\n"
  \o "- SINTA: " \o fallback_sinta_profile \o "\n\n"
  \o "---\n"
  \o "*Note: This CV was automatically generated with limited data. For complete information, please visit the official profiles above.*\n"

\* cv_agent.py:521: the length a reply of the model call must reach
MinCvLength == 100

\* cv_agent.py:525: cv_text.replace('[at]', '@').replace('[ at ]', '@')
\*                     .replace(' [at] ', '@')
convert_at(cv_text) ==
  ReSub(<<Lit({" [at] "})>>, "@",
        ReSub(<<Lit({"[ at ]"})>>, "@", ReSub(<<Lit({"[at]"})>>, "@", cv_text)))

\* simplified_cv_generation(professor_name): db_result is what the database
\* search returns, llm what the model call does (cv_agent.py:517-518 strip
\* its reply)
simplified_cv_generation(professor_name, db_result, llm) ==
  IF llm.kind = "ok" /\ Len(Strip(llm.text)) >= MinCvLength
  THEN [success |-> TRUE, cv_text |-> convert_at(Strip(llm.text)),
        generated_by |-> "Simplified CV Generator"]
  ELSE [success |-> TRUE,
        cv_text |-> fallback_cv(professor_name, extract_key_info(db_result)),
        generated_by |-> "Fallback Generator (LLM failed)"]

\* pdf_generator.py:341-351: the name the fallback parsing finds
fallback_name(raw_data) ==
  Only({IF Len(Words(candidate)) >= 2 THEN candidate ELSE "Unknown" :
          candidate \in {Strip(SearchText(raw_data, titled_name))}})

\* parse_cv_data(raw_data, conversation_data) with no conversation data
parse_cv_data(raw_data) ==
  IF Contains(raw_data, "## PERSONAL INFORMATION") \/ Contains(raw_data, "## EDUCATION")
  THEN parse_markdown_cv(raw_data)
  ELSE cv_data_start(fallback_name(raw_data),
                     IF Contains(raw_data, "Prof") THEN "Professor" ELSE "Lecturer")

----------------------------------------------------------------------------
(* The document renderer: pdf_generator.py, create_cv_pdf. The story is the *)
(* list of the flowables handed to the document, each a style and a text;   *)
(* a Spacer has the style "Spacer".                                         *)

Paragraph(text, style) == [style |-> style, text |-> text]
Spacer == [style |-> "Spacer", text |-> ""]

\* pdf_generator.py:462: s.replace('<', '&lt;').replace('>', '&gt;')
escape_markup(s) == ReSub(<<Lit({">"})>>, "&gt;", ReSub(<<Lit({"<"})>>, "&lt;", s))

\* pdf_generator.py:461, 469, 477, 485: the most entries of a section shown
max_positions == 5
max_research_areas == 8
max_education == 5
max_publications == 10

\* pdf_generator.py:459-465, 467-473, 475-481: a section of bullets: none
\* for an empty list, else the title, the first cap entries and a spacer
bullet_section(title, items, cap) ==
  IF Len(items) = 0 THEN <<>>
  ELSE <<Paragraph(title, "CVSectionTitle")>>
       \o [i \in 1..Len(FirstN(items, cap)) |->
             Paragraph(Bullet \o " " \o escape_markup(items[i]), "CVBody")]
       \o <<Spacer>>

\* pdf_generator.py:483-495: the publications, numbered, with a trailer for
\* the entries beyond the cap
publication_section(publications) ==
  IF Len(publications) = 0 THEN <<>>
  ELSE <<Paragraph("SELECTED PUBLICATIONS", "CVSectionTitle")>>
       \o [i \in 1..Len(FirstN(publications, max_publications)) |->
             Paragraph(ToString(i) \o ". " \o escape_markup(publications[i]), "CVBody")]
       \o (IF Len(publications) > max_publications
           THEN <<Paragraph("<i>... and " \o ToString(Len(publications) - max_publications)
                            \o " more publications</i>", "CVBody")>>
           ELSE <<>>)
       \o <<Spacer>>

\* pdf_generator.py:498-503, 505: fewer items than this add the note
min_total_items == 3
total_items(cv_data) ==
  Len(cv_data.research_areas) + Len(cv_data.publications)
  + Len(cv_data.education) + Len(cv_data.positions)
completeness_note ==
  "This CV was generated based on available information from the conversation and database. "
  \o "For more comprehensive information, please visit the official university website or contact the faculty directly."

\* pdf_generator.py:63: the date of the call
generated_date == "01 January 2025"

\* create_cv_pdf, pdf_generator.py:437-524: the story of a record (no record
\* of the parser holds family information)
cv_story(cv_data) ==
  <<Paragraph(Upper(cv_data.name), "CVTitle"),
    Paragraph(cv_data.title, "CVSubtitle"),
    Paragraph(cv_data.department \o ", " \o cv_data.affiliation, "CVAffiliation")>>
  \o (IF cv_data.birth_info # ""
      THEN <<Paragraph("<b>Born:</b> " \o cv_data.birth_info, "CVBody")>> ELSE <<>>)
  \o (IF cv_data.email # ""
      THEN <<Paragraph("<b>Email:</b> " \o cv_data.email, "CVBody")>> ELSE <<>>)
  \o <<Spacer>>
  \o (IF cv_data.sinta_score # ""
      THEN <<Paragraph("<b>SINTA Score:</b> " \o cv_data.sinta_score, "CVBody"), Spacer>>
      ELSE <<>>)
  \o bullet_section("CURRENT POSITIONS", cv_data.positions, max_positions)
  \o bullet_section("RESEARCH INTERESTS", cv_data.research_areas, max_research_areas)
  \o bullet_section("EDUCATION", cv_data.education, max_education)
  \o publication_section(cv_data.publications)
  \o (IF total_items(cv_data) < min_total_items
      THEN <<Paragraph("NOTE", "CVSectionTitle"), Paragraph(completeness_note, "CVBody")>>
      ELSE <<>>)
  \o <<Spacer,
       Paragraph("Curriculum Vitae generated by Check Please AI System", "CVFooter"),
       Paragraph("Generated on: " \o generated_date, "CVFooter"),
       Paragraph("Based on conversation data and academic database sources", "CVFooter")>>

----------------------------------------------------------------------------
(* Uploaded documents: main.py, upload_pdf; agent_core.py, the session     *)
(* context; tools.py, PDFSearchTool. A session id of "" is None. The       *)
(* collection is the one the academic profiles are in (main.py:496,        *)
(* tools.py:21).                                                           *)

\* main.py:511-520: the document stored for a chunk
upload_doc(session_id, text) ==
  [text |-> text, source_type |-> "user_pdf", session_id |-> session_id]

\* agent_core.py:59-60, 13-16: the global after HybridRAG.query's first
\* statement
session_context_set(current_session_id, session_id) ==
  IF session_id # "" THEN session_id ELSE current_session_id

\* tools.py:1147
pdf_search_limit == 10

\* tools.py:1144-1151: collection.find(filter={"source_type": "user_pdf"},
\* sort=..., limit=10); the collection holds fewer documents than the limit
PDFSearchTool_find(collection) ==
  FirstN(SelectSeq(collection, LAMBDA doc : doc.source_type = "user_pdf"), pdf_search_limit)

\* HybridRAG.query(user_query, session_id=session_id) whose agent calls the
\* User PDF Search Tool: the global it leaves, and the search made
pdf_query(p, session_id) ==
  [p EXCEPT !.current_session_id = session_context_set(p.current_session_id, session_id),
            !.search = [session_id |-> session_id,
                        context |-> session_context_set(p.current_session_id, session_id),
                        docs |-> PDFSearchTool_find(p.collection)]]

----------------------------------------------------------------------------
(* The session store: main.py *)

\* main.py:183-184: the most turns a session keeps
SessionCap == 10

\* a faulty cap, which keeps the first turns of a session instead of the last
KeepOldest(turns) == IF Len(turns) > SessionCap THEN SubSeq(turns, 1, SessionCap) ELSE turns

\* main.py:183-184
CapTurns(turns) == IF Len(turns) > SessionCap THEN LastN(turns, SessionCap) ELSE turns

\* main.py:177-181: the stored turn
Turn(now, user_message, ai_response) ==
  [timestamp |-> now, user |-> user_message, assistant |-> ai_response]

\* conversation_sessions.get(session_id, [])
SessionGet(sessions, session_id) ==
  IF session_id \in DOMAIN sessions THEN sessions[session_id] ELSE <<>>

\* a faulty store, which holds only the session written to
StoreIntoAlone(sessions, now, session_id, user_message, ai_response) ==
  [sid \in {session_id} |->
     CapTurns(Append(SessionGet(sessions, sid), Turn(now, user_message, ai_response)))]

\* main.py:172-184: the store after store_conversation(session_id, ...)
StoreInto(sessions, now, session_id, user_message, ai_response) ==
  [sid \in DOMAIN sessions \cup {session_id} |->
     IF sid = session_id
     THEN CapTurns(Append(SessionGet(sessions, sid), Turn(now, user_message, ai_response)))
     ELSE sessions[sid]]

\* store_conversation(session_id, user_message, ai_response)
store_conversation(session_id, user_message, ai_response) ==
  /\ conversation_sessions' =
       StoreInto(conversation_sessions, clock, session_id, user_message, ai_response)
  /\ stored' = Append(stored, [session_id |-> session_id,
                               turn |-> Turn(clock, user_message, ai_response)])
  /\ clock' = clock + 1

----------------------------------------------------------------------------
(* The chat handler: main.py, POST /api/chat *)

\* main.py:140-148
chitchat_keywords ==
  {"halo", "hai", "hello", "hi", "hey", "selamat pagi", "selamat siang", "selamat malam",
   "good morning", "good afternoon", "good evening", "apa kabar", "how are you",
   "test", "testing", "tes", "terima kasih", "thank you", "thanks",
   "bye", "goodbye", "sampai jumpa"}

\* main.py:134-155
is_chitchat(query) ==
  \E query_lower \in {Strip(Lower(query))} :
    Len(Words(query_lower)) <= 3 /\ ContainsAny(query_lower, chitchat_keywords)

\* main.py:157-170: simple_llm is what the model answers, [raised |-> TRUE]
\* or [raised |-> FALSE, text |-> its answer]
handle_chitchat(query, simple_llm) ==
  IF simple_llm.raised
  THEN "Hello! I'm Check Please, your AI research assistant. How can I help you today?"
  ELSE simple_llm.text

\* main.py:113-125: lines stripped, blank lines dropped, a line that is not
\* markup wrapped in a paragraph
RECURSIVE result_lines(_, _)
result_lines(lines, i) ==
  IF i > Len(lines) THEN <<>>
  ELSE Only({(IF line = "" THEN <<>>
              ELSE IF StartsWith(line, "<") THEN <<line>>
              ELSE <<"<p class=\"mb-3 text-gray-700 leading-relaxed\">" \o line \o "</p>">>)
             \o result_lines(lines, i + 1) : line \in {Strip(lines[i])}})

\* main.py:67-132, for a text that holds no markdown (header, bold, list item,
\* rule) and no emoji, which lines 79-110 leave as it is
format_response_for_frontend(text) ==
  "<div class=\"formatted-response prose max-w-none\">"
  \o Join(result_lines(Split(text, NL), 1), NL) \o "</div>"

\* agent_core_simple.py:392: the parameters of run_simple_rag
run_simple_rag_params == <<"user_query", "user_urls", "conversation_history">>

\* main.py:248: the positional arguments run_simple_rag is called with
run_simple_rag_call(request, conversation_history, session_id) ==
  <<request.message, request.user_urls, conversation_history, session_id>>

\* agent_core_simple.py:392-397, called with the arguments args (at least
\* three): Python binds them to the parameters and raises TypeError when there
\* are too many; SimpleRAG() raises ValueError without an API key
\* (agent_core_simple.py:27-30). env = [api_key, simple_llm, world].
run_simple_rag(args, env) ==
  IF Len(args) > Len(run_simple_rag_params)
  THEN [raised |-> TRUE,
        error  |-> "run_simple_rag() takes from 1 to " \o ToString(Len(run_simple_rag_params))
                   \o " positional arguments but " \o ToString(Len(args)) \o " were given"]
  ELSE IF ~env.api_key THEN [raised |-> TRUE, error |-> "GEMINI_API_KEY not found"]
  ELSE [raised |-> FALSE, value |-> SimpleRAG_query(args[1], args[2], args[3], env.world).response]

\* main.py:235-252: the result of the request, or the exception raised
chat_result(request, conversation_history, session_id, env) ==
  IF Len(request.user_urls) = 0 /\ is_chitchat(request.message)
  THEN [raised |-> FALSE, value |-> handle_chitchat(request.message, env.simple_llm)]
  ELSE run_simple_rag(run_simple_rag_call(request, conversation_history, session_id), env)

\* main.py:221: str(uuid.uuid4()), an id no session has
Uuids == {"u1", "u2"}

\* main.py:215-271: POST /api/chat. request = [message, user_urls, session_id],
\* with <<>> for no URLs and "" for no session id.
handle_chat_query(request, env) ==
  \E session_id \in (IF request.session_id # "" THEN {request.session_id}
                     ELSE Uuids \ DOMAIN conversation_sessions) :
    \E result \in {chat_result(request, SessionGet(conversation_sessions, session_id),
                               session_id, env)} :
      IF result.raised
      THEN /\ reply' = [status_code |-> 500,
                        content |-> [error   |-> result.error,
                                     message |-> "Agent execution failed. Please try again."]]
           /\ UNCHANGED <<conversation_sessions, stored, clock>>
      ELSE /\ store_conversation(session_id, request.message, result.value)
           /\ reply' = [status_code |-> 200,
                        content |-> [response   |-> format_response_for_frontend(result.value),
                                     session_id |-> session_id]]

----------------------------------------------------------------------------
(* Concurrent chat requests. handle_chat_query is a coroutine (async def)  *)
(* of the event loop; me is one request being handled: its request, the    *)
(* statement it is at (pc), its locals and its status.                     *)

\* a coroutine that gives up the event loop between any two statements
YieldsAnywhere(pc) == TRUE

\* main.py:215-271: handle_chat_query awaits nothing, so the event loop gets
\* control back only when the coroutine has returned
yields(pc) == pc = "done"

\* the assignment conversation_sessions[session_id] = turns
SessionSet(sessions, session_id, turns) ==
  [sid \in DOMAIN sessions \cup {session_id} |->
     IF sid = session_id THEN turns ELSE sessions[sid]]

\* one statement of handle_chat_query (main.py:221-262) and of the
\* store_conversation it calls (main.py:174-184), executed by the request me
\* on the store sessions when datetime.now() is now. The result: the request,
\* the store and the clock after the statement.
chat_statement(me, sessions, now, env) ==
  IF me.pc = "get_history"                       \* main.py:221-229
  THEN [me |-> [me EXCEPT !.conversation_history = SessionGet(sessions, me.request.session_id),
                          !.pc = "respond"],
        sessions |-> sessions, now |-> now]
  ELSE IF me.pc = "respond"                      \* main.py:235-252, 264-271
  THEN [me |-> IF chat_result(me.request, me.conversation_history,
                              me.request.session_id, env).raised
               THEN [me EXCEPT !.status = 500, !.pc = "done"]
               ELSE [me EXCEPT !.pc = "store_check",
                               !.result = chat_result(me.request, me.conversation_history,
                                                      me.request.session_id, env).value],
        sessions |-> sessions, now |-> now]
  ELSE IF me.pc = "store_check"                  \* main.py:174
  THEN [me |-> [me EXCEPT !.pc = IF me.request.session_id \in DOMAIN sessions
                                 THEN "store_append" ELSE "store_init"],
        sessions |-> sessions, now |-> now]
  ELSE IF me.pc = "store_init"                   \* main.py:175
  THEN [me |-> [me EXCEPT !.pc = "store_append"],
        sessions |-> SessionSet(sessions, me.request.session_id, <<>>), now |-> now]
  ELSE IF me.pc = "store_append"                 \* main.py:177-181
  THEN [me |-> [me EXCEPT !.pc = "store_len"],
        sessions |-> SessionSet(sessions, me.request.session_id,
                                Append(sessions[me.request.session_id],
                                       Turn(now, me.request.message, me.result))),
        now |-> now + 1]
  ELSE IF me.pc = "store_len"                    \* main.py:183
  THEN [me |-> [me EXCEPT !.pc = IF Len(sessions[me.request.session_id]) > SessionCap
                                 THEN "store_slice" ELSE "return"],
        sessions |-> sessions, now |-> now]
  ELSE IF me.pc = "store_slice"                  \* main.py:184, the right-hand side
  THEN [me |-> [me EXCEPT !.slice = LastN(sessions[me.request.session_id], SessionCap),
                          !.pc = "store_assign"],
        sessions |-> sessions, now |-> now]
  ELSE IF me.pc = "store_assign"                 \* main.py:184, the assignment
  THEN [me |-> [me EXCEPT !.pc = "return"],
        sessions |-> SessionSet(sessions, me.request.session_id, me.slice), now |-> now]
  ELSE [me |-> [me EXCEPT !.status = 200, !.pc = "done"],     \* main.py:257-262
        sessions |-> sessions, now |-> now]

----------------------------------------------------------------------------
(* The start of a process: tools.py and main.py for the server,            *)
(* load_academic_data_clean.py for the loader. p.env is the set of          *)
(* credentials the environment holds; p.lib says whether the constructors   *)
(* of the embedding model and of LLM raise when they are given no key,      *)
(* which the libraries decide.                                              *)

Credentials == {"GEMINI_API_KEY", "ASTRA_DB_API_ENDPOINT", "ASTRA_DB_APPLICATION_TOKEN"}

\* tools.py:18-33: the module reads the endpoint and the token with os.getenv
\* and checks neither; a failed construction of the embedding model is
\* printed and leaves embeddings = None
tools_import(p) ==
  [p EXCEPT !.phase = "tools_imported",
            !.embeddings = IF "GEMINI_API_KEY" \notin p.env /\ p.lib.embeddings_raises
                           THEN "None" ELSE "model"]

\* main.py:21-65: load_dotenv, the app, simple_llm = LLM(api_key=os.getenv(...));
\* nothing is checked, the module fails only if LLM(...) itself raises
main_import(p) ==
  [p EXCEPT !.phase = IF "GEMINI_API_KEY" \notin p.env /\ p.lib.llm_raises
                      THEN "exited" ELSE "serving"]

\* load_academic_data_clean.py:19-26: raise ValueError unless all three are set
loader_start(p) ==
  [p EXCEPT !.phase = IF Credentials \subseteq p.env THEN "running" ELSE "exited"]

\* what a vector search of the serving process meets (tools.py:118-125):
\* embeddings None, a client built from a missing key, endpoint or token, or
\* the database
proc_db(p) ==
  IF p.embeddings = "None" THEN [kind |-> "no_embeddings"]
  ELSE IF ~(Credentials \subseteq p.env)
  THEN [kind |-> "error", error |-> "missing credential"]
  ELSE [kind |-> "ok", docs |-> <<"Dr. Jane Doe, lecturer, antennas.">>]

\* agent_core_simple.py:27-30 (and agent_core.py:32-35): the constructor that
\* run_simple_rag calls for each request
SimpleRAG_init(p) ==
  IF "GEMINI_API_KEY" \notin p.env
  THEN [raised |-> TRUE, error |-> "GEMINI_API_KEY not found"]
  ELSE [raised |-> FALSE, error |-> ""]

\* one request of the serving process: a vector search (AcademicSearchTool._run),
\* the construction of the pipeline (SimpleRAG()), or a chitchat answer
\* (handle_chitchat, whose call of simple_llm fails without a key)
serve(p, kind) ==
  [p EXCEPT !.served = Append(@,
     IF kind = "vector_search"
     THEN [kind |-> kind, failed |-> ~AcademicSearchSucceeded(proc_db(p)),
           text |-> AcademicSearchTool_run("who is Jane Doe", proc_db(p))]
     ELSE IF kind = "SimpleRAG()"
     THEN [kind |-> kind, failed |-> SimpleRAG_init(p).raised, text |-> SimpleRAG_init(p).error]
     ELSE [kind |-> kind, failed |-> FALSE,
           text |-> handle_chitchat("hi", [raised |-> "GEMINI_API_KEY" \notin p.env,
                                           text |-> "Hello!"])])]

----------------------------------------------------------------------------
(* Specifications *)

\* the values of the state components a specification does not use
Idle == <<>>

\* session ids, messages and replies of the store's callers
SessionIds == {"s1", "s2"}
StoredMessages == {"hi"}
StoredReplies == {"Hello!"}

\* how many turns are stored in one behaviour
MaxStores == 12

StoreInit ==
  /\ conversation_sessions = <<>>
  /\ stored = <<>>
  /\ clock = 1
  /\ reply = Idle /\ run = Idle /\ loader = Idle /\ rs = Idle /\ pp = Idle /\ cv = Idle /\ fetch = Idle /\ proc = Idle /\ tasks = Idle /\ gen = Idle /\ pdfs = Idle /\ cls = Idle /\ prompt = Idle /\ pdf = Idle /\ info = Idle

StoreConversation ==
  /\ Len(stored) < MaxStores
  /\ \E sid \in SessionIds, u \in StoredMessages, a \in StoredReplies :
       store_conversation(sid, u, a)
  /\ UNCHANGED <<reply, run, loader, rs, pp, cv, fetch, proc, tasks, gen, pdfs, cls, prompt, pdf, info>>

StoreNext == StoreConversation

SpecStore == StoreInit /\ [][StoreNext]_vars

\* what a pipeline run is given
Queries == {"list all lecturers", "who is Jane Doe", "what is his email"}
PageUrl == "http://a.example/p"
StaffUrl == "http://ee.example/staff-pengajar"
UrlLists == {<<>>, <<PageUrl>>, <<PageUrl, PageUrl>>, <<StaffUrl>>}
Histories == {<<>>, <<Turn(1, "who is Jane Doe", "Dr. Jane Doe is a lecturer.")>>}

\* what the database, the web and the language model may answer
DbAnswers == {[kind |-> "ok", docs |-> <<"Dr. Jane Doe, lecturer, antennas.">>],
              [kind |-> "ok", docs |-> <<>>],
              [kind |-> "error", error |-> "connection refused"]}
WebAnswers == {
  (PageUrl :> [kind |-> "page", text |-> "<p>Jane Doe teaches antennas.</p>"]) @@
  (StaffUrl :> [kind |-> "staff", attempts |-> <<"timeout", "ok", "ok">>, error |-> "",
                names |-> <<"Prof. Dr. Jane Doe", "Dr. Bob  Ray M.Sc">>, lines |-> <<>>]),
  (PageUrl :> [kind |-> "error", error |-> "HTTPError - 404 Not Found"]) @@
  (StaffUrl :> [kind |-> "staff", attempts |-> <<"timeout", "timeout", "timeout">>, error |-> "",
                names |-> <<>>, lines |-> <<>>]) }
LlmAnswers == {[raised |-> TRUE, text |-> ""],
               [raised |-> FALSE,
                text |-> "Final Answer: **Dr. Jane Doe**\n- lecturer\n- lecturer\nborn in 1975"],
               [raised |-> FALSE, text |-> "I could not find that person."]}
Worlds == {w \in [db : DbAnswers, web : WebAnswers, llm : LlmAnswers] :
             \/ w.db.kind = "error" /\ w.web[PageUrl].kind = "error"
             \/ w.db.kind = "ok" /\ w.web[PageUrl].kind = "page" /\ ~w.llm.raised
             \/ w.db.kind = "ok" /\ w.db.docs = <<>> /\ w.llm.raised}

\* a request waiting for its run
Request(q, urls, h, w) ==
  [pipeline |-> "none", query |-> q, urls |-> urls, history |-> h, world |-> w]

\* the sources of a loader run, and what the web may answer a fetch
OtherUrl == "http://b.example/q"
MaxSources == 3
SourceLists == UNION {[1..n -> {PageUrl, OtherUrl}] : n \in 1..MaxSources}
ValidPageText ==
  "<h1>Prof. Dr. Jane Doe</h1> <p>Lecturer, Departemen Teknik Elektro, Universitas Indonesia.</p> "
  \o "<p>Research on antennas and wave propagation, microwave circuits and radar systems; "
  \o "teaches electromagnetics and supervises the students of the telecommunication laboratory.</p>"
LoaderPages == {[kind |-> "page", text |-> ValidPageText],
                [kind |-> "page", text |-> "<p>404 page not found</p>"],
                [kind |-> "nodocs"],
                [kind |-> "error", error |-> "ConnectionError"]}

\* a loader about to process its sources
LoaderStart(sources) ==
  [all_sources |-> sources, idx |-> 1, scraped_urls |-> {}, log |-> <<>>,
   skipped_duplicates |-> 0]

\* an aggregation run is a chat query waiting for its pipeline, or a run of
\* the loader over its sources
PipelineInit ==
  /\ \/ /\ run \in {Request(q, urls, h, w) : q \in Queries, urls \in UrlLists,
                                              h \in Histories, w \in Worlds}
        /\ loader = Idle
     \/ /\ run = Idle
        /\ loader \in {LoaderStart(sources) : sources \in SourceLists}
  /\ conversation_sessions = Idle /\ stored = Idle /\ clock = Idle
  /\ reply = Idle /\ rs = Idle /\ pp = Idle /\ cv = Idle /\ fetch = Idle /\ proc = Idle /\ tasks = Idle /\ gen = Idle /\ pdfs = Idle /\ cls = Idle /\ prompt = Idle /\ pdf = Idle /\ info = Idle

\* the request is run by HybridRAG.query, for session s1
HybridQuery ==
  /\ run # Idle
  /\ run.pipeline = "none"
  /\ run' = HybridRAG_query(run.query, run.urls, run.history, "s1", run.world)
  /\ UNCHANGED <<conversation_sessions, stored, clock, reply, loader, rs, pp, cv, fetch, proc, tasks, gen, pdfs, cls, prompt, pdf, info>>

\* the request is run by SimpleRAG.query
SimpleQuery ==
  /\ run # Idle
  /\ run.pipeline = "none"
  /\ run' = SimpleRAG_query(run.query, run.urls, run.history, run.world)
  /\ UNCHANGED <<conversation_sessions, stored, clock, reply, loader, rs, pp, cv, fetch, proc, tasks, gen, pdfs, cls, prompt, pdf, info>>

\* the loader's loop processes its next source
ScrapePage ==
  /\ loader # Idle
  /\ loader.idx <= Len(loader.all_sources)
  /\ \E page \in LoaderPages : scrape_page(loader.all_sources[loader.idx], page)
  /\ UNCHANGED <<conversation_sessions, stored, clock, reply, run, rs, pp, cv, fetch, proc, tasks, gen, pdfs, cls, prompt, pdf, info>>

PipelineNext == HybridQuery \/ SimpleQuery \/ ScrapePage

SpecPipeline == PipelineInit /\ [][PipelineNext]_vars

\* a call of a fetcher and what it will meet: the staff-listing scraper with
\* the outcome of each HTTP request it may make, the vector search with the
\* database's answer
FetchOutcomes == {"ok", "timeout", "http_error", "error"}
FetchErrors == {"HTTPError - 404 Client Error: Not Found for url",
                "ConnectionError - connection reset by peer"}
StaffPages == {[kind |-> "staff", attempts |-> a, error |-> e, names |-> n, lines |-> <<>>] :
                 a \in [1..max_retries -> FetchOutcomes], e \in FetchErrors,
                 n \in {<<>>, <<"Prof. Dr. Jane Doe">>}}
FetchCall(fetcher, id, world) ==
  [fetcher |-> fetcher, id |-> id, world |-> world, phase |-> "request", attempt |-> 1,
   requests |-> 0, sleeps |-> <<>>, retried_after |-> <<>>, result |-> ""]
StaffCalls == {FetchCall("_scrape_ui_staff_page", StaffUrl, page) : page \in StaffPages}
SearchCalls == {FetchCall("_vector_search", "who is Jane Doe", db) :
                  db \in DbAnswers \cup {[kind |-> "no_embeddings"]}}
EngUiResponses == {"200", "404", "500", "timeout", "error"}
EngUiData ==
  [name : {"", "Dr. Jane Doe"}, position : {"", "Associate Professor"},
   education : {<<>>, <<"Doctoral, Example University, 2010">>}, source_url : {""}]
EngUiCalls ==
  {FetchCall("scrape_eng_ui_personnel", name,
             [kind |-> "eng", url |-> eng_ui_url(name), response |-> r, data |-> d]) :
     name \in {"Dr. Eng. Jane Doe", "Prof. Jane  Doe, Ph.D."}, r \in EngUiResponses, d \in EngUiData}

FetchInit ==
  /\ \/ fetch \in StaffCalls
     \/ fetch \in SearchCalls
     \/ fetch \in EngUiCalls
  /\ conversation_sessions = Idle /\ stored = Idle /\ clock = Idle
  /\ reply = Idle /\ run = Idle /\ loader = Idle /\ rs = Idle /\ pp = Idle /\ cv = Idle /\ proc = Idle /\ tasks = Idle /\ gen = Idle /\ pdfs = Idle /\ cls = Idle /\ prompt = Idle /\ pdf = Idle /\ info = Idle

\* the staff-listing scraper makes the HTTP request of its attempt
StaffAttempt ==
  /\ fetch # Idle
  /\ fetch.fetcher = "_scrape_ui_staff_page" /\ fetch.phase = "request"
  /\ fetch' = staff_attempt(fetch)
  /\ UNCHANGED <<conversation_sessions, stored, clock, reply, run, loader, rs, pp, cv, proc, tasks, gen, pdfs, cls, prompt, pdf, info>>

\* its sleep ends and the loop continues
StaffRetry ==
  /\ fetch # Idle
  /\ fetch.fetcher = "_scrape_ui_staff_page" /\ fetch.phase = "sleep"
  /\ fetch' = staff_retry(fetch)
  /\ UNCHANGED <<conversation_sessions, stored, clock, reply, run, loader, rs, pp, cv, proc, tasks, gen, pdfs, cls, prompt, pdf, info>>

\* HybridRAG._vector_search: one call of the search tool
VectorSearch ==
  /\ fetch # Idle
  /\ fetch.fetcher = "_vector_search" /\ fetch.phase = "request"
  /\ fetch' = [fetch EXCEPT !.phase = "returned", !.requests = 1,
                            !.result = vector_search(fetch.id, fetch.world)]
  /\ UNCHANGED <<conversation_sessions, stored, clock, reply, run, loader, rs, pp, cv, proc, tasks, gen, pdfs, cls, prompt, pdf, info>>

\* EngUIPersonnelScraperTool._run: the request of the personnel page
EngUiScrape ==
  /\ fetch # Idle
  /\ fetch.fetcher = "scrape_eng_ui_personnel" /\ fetch.phase = "request"
  /\ fetch' = eng_ui_attempt(fetch)
  /\ UNCHANGED <<conversation_sessions, stored, clock, reply, run, loader, rs, pp, cv, proc, tasks, gen, pdfs, cls, prompt, pdf, info>>

FetchNext == StaffAttempt \/ StaffRetry \/ VectorSearch \/ EngUiScrape

SpecFetch == FetchInit /\ [][FetchNext]_vars

\* a call that can take a step takes it: the calls block their thread and
\* nothing else runs in it
SpecFetchLive == SpecFetch /\ WF_vars(FetchNext)

\* a process about to start, in any environment
Programs == {"main.py", "load_academic_data_clean.py"}
RequestKinds == {"vector_search", "SimpleRAG()", "chitchat"}
MaxRequests == 2

StartInit ==
  /\ proc \in [program : Programs, env : SUBSET Credentials,
               lib : [embeddings_raises : BOOLEAN, llm_raises : BOOLEAN],
               phase : {"starting"}, embeddings : {"unset"}, served : {<<>>}]
  /\ conversation_sessions = Idle /\ stored = Idle /\ clock = Idle
  /\ reply = Idle /\ run = Idle /\ loader = Idle /\ rs = Idle /\ pp = Idle /\ cv = Idle /\ fetch = Idle /\ tasks = Idle /\ gen = Idle /\ pdfs = Idle /\ cls = Idle /\ prompt = Idle /\ pdf = Idle /\ info = Idle

\* main.py imports agent_core and tools before its own statements run
ImportTools ==
  /\ proc # Idle
  /\ proc.program = "main.py" /\ proc.phase = "starting"
  /\ proc' = tools_import(proc)
  /\ UNCHANGED <<conversation_sessions, stored, clock, reply, run, loader, rs, pp, cv, fetch, tasks, gen, pdfs, cls, prompt, pdf, info>>

StartServer ==
  /\ proc # Idle
  /\ proc.program = "main.py" /\ proc.phase = "tools_imported"
  /\ proc' = main_import(proc)
  /\ UNCHANGED <<conversation_sessions, stored, clock, reply, run, loader, rs, pp, cv, fetch, tasks, gen, pdfs, cls, prompt, pdf, info>>

StartLoader ==
  /\ proc # Idle
  /\ proc.program = "load_academic_data_clean.py" /\ proc.phase = "starting"
  /\ proc' = loader_start(proc)
  /\ UNCHANGED <<conversation_sessions, stored, clock, reply, run, loader, rs, pp, cv, fetch, tasks, gen, pdfs, cls, prompt, pdf, info>>

ServeRequest ==
  /\ proc # Idle
  /\ proc.phase = "serving" /\ Len(proc.served) < MaxRequests
  /\ \E kind \in RequestKinds : proc' = serve(proc, kind)
  /\ UNCHANGED <<conversation_sessions, stored, clock, reply, run, loader, rs, pp, cv, fetch, tasks, gen, pdfs, cls, prompt, pdf, info>>

StartNext == ImportTools \/ StartServer \/ StartLoader \/ ServeRequest

SpecStart == StartInit /\ [][StartNext]_vars

\* what a caller posts to /api/chat
ChatMessages == {"hi", "who is Jane Doe", "thanks a lot"}
ChatUrlLists == {<<>>, <<PageUrl>>}
ChatSessionIds == {"", "s1"}
ChatRequests == [message : ChatMessages, user_urls : ChatUrlLists, session_id : ChatSessionIds]

\* what the process environment is while a request is handled
ChatEnvs == [api_key : BOOLEAN,
             simple_llm : {[raised |-> TRUE, text |-> ""],
                           [raised |-> FALSE, text |-> "Hello!\n\n How can I help?"]},
             world : {w \in Worlds : w.db.kind = "error" /\ w.llm.raised}]

\* how many turns are stored in one behaviour of the chat handler
MaxChats == 3

ChatInit ==
  /\ conversation_sessions = <<>>
  /\ stored = <<>>
  /\ clock = 1
  /\ reply = Idle /\ run = Idle /\ loader = Idle /\ rs = Idle /\ pp = Idle /\ cv = Idle /\ fetch = Idle /\ proc = Idle /\ tasks = Idle /\ gen = Idle /\ pdfs = Idle /\ cls = Idle /\ prompt = Idle /\ pdf = Idle /\ info = Idle

HandleChatQuery ==
  /\ clock <= MaxChats
  /\ \E request \in ChatRequests, env \in ChatEnvs : handle_chat_query(request, env)
  /\ UNCHANGED <<run, loader, rs, pp, cv, fetch, proc, tasks, gen, pdfs, cls, prompt, pdf, info>>

ChatNext == HandleChatQuery

SpecChat == ChatInit /\ [][ChatNext]_vars

\* two chat requests that arrive together, for sessions that are new, nearly
\* full or full
PriorTurns(n) == [i \in 1..n |-> Turn(i, "who is Jane Doe", "Dr. Jane Doe is a lecturer.")]
PriorStores == {<<>>, "s1" :> PriorTurns(SessionCap - 1), "s1" :> PriorTurns(SessionCap)}
ChatTask(message, session_id) ==
  [request |-> [message |-> message, user_urls |-> <<>>, session_id |-> session_id],
   pc |-> "get_history", conversation_history |-> <<>>, result |-> "", slice |-> <<>>,
   status |-> 0]
TaskMessages == <<{"hi", "who is Jane Doe"}, {"thanks a lot"}>>

TasksInit ==
  /\ conversation_sessions \in PriorStores
  /\ stored = [i \in 1..Len(SessionGet(conversation_sessions, "s1")) |->
                 [session_id |-> "s1", turn |-> conversation_sessions["s1"][i]]]
  /\ clock = Len(stored) + 1
  /\ tasks \in [running : {0},
                env : {e \in ChatEnvs : e.api_key},
                t : {<<ChatTask(m1, s1), ChatTask(m2, s2)>> :
                       m1 \in TaskMessages[1], m2 \in TaskMessages[2],
                       s1 \in SessionIds, s2 \in SessionIds}]
  /\ reply = Idle /\ run = Idle /\ loader = Idle /\ rs = Idle /\ pp = Idle /\ cv = Idle /\ fetch = Idle /\ proc = Idle /\ gen = Idle /\ pdfs = Idle /\ cls = Idle /\ prompt = Idle /\ pdf = Idle /\ info = Idle

\* the event loop runs the next statement of a request: of the one that
\* holds the loop, or of any unfinished one when the loop is free
HandlerStep ==
  /\ tasks # Idle
  /\ \E k \in DOMAIN tasks.t :
       /\ tasks.running \in {0, k}
       /\ tasks.t[k].pc # "done"
       /\ \E r \in {chat_statement(tasks.t[k], conversation_sessions, clock, tasks.env)} :
            /\ tasks' = [tasks EXCEPT !.t[k] = r.me,
                                      !.running = IF yields(r.me.pc) THEN 0 ELSE k]
            /\ conversation_sessions' = r.sessions
            /\ clock' = r.now
            /\ stored' = IF r.now > clock
                         THEN Append(stored, [session_id |-> r.me.request.session_id,
                                              turn |-> Turn(clock, r.me.request.message,
                                                            r.me.result)])
                         ELSE stored
  /\ UNCHANGED <<reply, run, loader, rs, pp, cv, fetch, proc, gen, pdfs, cls, prompt, pdf, info>>

TasksNext == HandlerStep

SpecTasks == TasksInit /\ [][TasksNext]_vars


\* the queries and histories the resolver is called with
ResolveQueries ==
  {"tell me more about him", "what is his email", "tell me about what she does",
   "show his publications", "her research topics", "find more about their work",
   "list all the lecturers", "who is Jane Doe",
   "tell me about his research", "more about her publications",
   "his research on antennas", "what are their publications"}
ResolveHistories ==
  {<<>>,
   <<Turn(1, "who is Jane Doe", "Dr. Jane Doe is a lecturer.")>>,
   <<Turn(1, "hello", "hi there")>>,
   <<Turn(1, "who is jane doe", "she teaches antennas")>>,
   <<Turn(1, "who is Jane Doe", "a lecturer"), Turn(2, "and Bob Ray", "Bob Ray teaches.")>>,
   <<Turn(1, "who is Bob Ray", "Bob Ray teaches."), Turn(2, "ok", "fine"), Turn(3, "ok", "fine"),
     Turn(4, "ok", "fine"), Turn(5, "ok", "fine")>>,
   <<Turn(1, "Tell Me More", "about Information")>>}

ResolveInit ==
  /\ rs \in [query : ResolveQueries, history : ResolveHistories, done : {FALSE}, resolved : {""}]
  /\ conversation_sessions = Idle /\ stored = Idle /\ clock = Idle
  /\ reply = Idle /\ run = Idle /\ loader = Idle /\ pp = Idle /\ cv = Idle /\ fetch = Idle /\ proc = Idle /\ tasks = Idle /\ gen = Idle /\ pdfs = Idle /\ cls = Idle /\ prompt = Idle /\ pdf = Idle /\ info = Idle

\* _resolve_pronouns_in_query is called with the query and the history
Resolve ==
  /\ ~rs.done
  /\ rs' = [rs EXCEPT !.done = TRUE,
                      !.resolved = resolve_pronouns_in_query(rs.query, rs.history)]
  /\ UNCHANGED <<conversation_sessions, stored, clock, reply, run, loader, pp, cv, fetch, proc, tasks, gen, pdfs, cls, prompt, pdf, info>>

ResolveNext == Resolve

SpecResolve == ResolveInit /\ [][ResolveNext]_vars


\* s repeated n times
RECURSIVE Repeat(_, _)
Repeat(s, n) ==
  IF n = 0 THEN "" ELSE IF n = 1 THEN s
  ELSE Repeat(s, n \div 2) \o Repeat(s, n - (n \div 2))

\* the lines of the answers that are post-processed
PostLines ==
  {"born in 1975", "Chairperson, born committee", "He was born on 5 May 1975",
   "Professor Doe was born on 5 May 1975", "Dr. Jane Doe is a lecturer",
   "- antennas", "He has 3 children", ""}
\* answers of one, two and three lines, and answers longer than the safety
\* limit and than the limit plus the marker
PostTexts ==
  PostLines
  \cup {a \o NL \o b : a, b \in PostLines}
  \cup {a \o NL \o a \o NL \o a : a \in PostLines}
  \cup {NL \o NL \o Repeat("x", SafetyLimit - 2) \o "zzzz",
        Repeat("x", SafetyLimit + 1),
        Repeat("x", SafetyLimit + Len(TruncationMarker) + 1)}

\* the post-processing steps and paths: the two filters, the two dedup
\* steps, HybridRAG.query's post-processing, SimpleRAG.query's for a basic
\* lookup and for a complex query (whose result HybridRAG.query has already
\* post-processed, agent_core_simple.py:285-294)
PostSteps == {"HybridRAG._filter_personal_info", "SimpleRAG._filter_personal_info",
              "HybridRAG._safety_check", "SimpleRAG._deduplicate_gentle",
              "HybridRAG.query", "SimpleRAG.query basic", "SimpleRAG.query complex"}
PostApply(step, text) ==
  CASE step = "HybridRAG._filter_personal_info" -> HybridRAG_filter_personal_info(text)
    [] step = "SimpleRAG._filter_personal_info" -> SimpleRAG_filter_personal_info(text)
    [] step = "HybridRAG._safety_check"         -> HybridRAG_safety_check(text)
    [] step = "SimpleRAG._deduplicate_gentle"   -> SimpleRAG_deduplicate_gentle(text)
    [] step = "HybridRAG.query"                 -> HybridRAG_post_processing(text)
    [] step = "SimpleRAG.query basic"           -> SimpleRAG_post_processing(text)
    [] step = "SimpleRAG.query complex"         ->
         SimpleRAG_post_processing(HybridRAG_post_processing(text))

PostInit ==
  /\ pp \in [step : PostSteps, input : PostTexts, stage : {0}, output : {""}, again : {""}]
  /\ conversation_sessions = Idle /\ stored = Idle /\ clock = Idle
  /\ reply = Idle /\ run = Idle /\ loader = Idle /\ rs = Idle /\ cv = Idle /\ fetch = Idle /\ proc = Idle /\ tasks = Idle /\ gen = Idle /\ pdfs = Idle /\ cls = Idle /\ prompt = Idle /\ pdf = Idle /\ info = Idle

\* the step is applied to the text
PostProcess ==
  /\ pp.stage = 0
  /\ pp' = [pp EXCEPT !.stage = 1, !.output = PostApply(pp.step, pp.input)]
  /\ UNCHANGED <<conversation_sessions, stored, clock, reply, run, loader, rs, cv, fetch, proc, tasks, gen, pdfs, cls, prompt, pdf, info>>

\* the step is applied to its own output
PostProcessAgain ==
  /\ pp.stage = 1
  /\ pp' = [pp EXCEPT !.stage = 2, !.again = PostApply(pp.step, pp.output)]
  /\ UNCHANGED <<conversation_sessions, stored, clock, reply, run, loader, rs, cv, fetch, proc, tasks, gen, pdfs, cls, prompt, pdf, info>>

PostNext == PostProcess \/ PostProcessAgain

SpecPost == PostInit /\ [][PostNext]_vars


\* the markdown the CV parser is given: a name, a section and two lines
CvSections ==
  {"Publications", "PUBLICATIONS & SCHOLARLY WORKS", "Education",
   "Academic Background", "Current Positions", "Research Interests"}
CvLines ==
  {"1. **Wideband Antenna Design**, IEEE Access (2020)",
   "2. IEEE Transactions on Antennas and Propagation",
   "- source: Google Scholar profile",
   "- Not available",
   "- S.T., Universitas Indonesia, 1998",
   "3. Radar (2019)",
   "- **Doctor of Engineering** - Example University, 2010",
   "- Head of the Antenna Laboratory",
   "- IoT"}
EducationFixture == "## EDUCATION\n- PhD, Example University, 2010"
CvTexts ==
  {"# Dr. Jane Doe\n\n## " \o sec \o NL \o a \o NL \o b :
     sec \in CvSections, a \in CvLines, b \in CvLines}
  \cup {EducationFixture, "# Dr. Jane Doe\n\n" \o EducationFixture}

CvInit ==
  /\ cv \in [markdown : CvTexts, done : {FALSE}, parser : {""}, record : {<<>>}]
  /\ conversation_sessions = Idle /\ stored = Idle /\ clock = Idle
  /\ reply = Idle /\ run = Idle /\ loader = Idle /\ rs = Idle /\ pp = Idle /\ fetch = Idle /\ proc = Idle /\ tasks = Idle /\ gen = Idle /\ pdfs = Idle /\ cls = Idle /\ prompt = Idle /\ pdf = Idle /\ info = Idle

\* parse_markdown_cv is called with the text
ParseMarkdownCv ==
  /\ ~cv.done
  /\ cv' = [cv EXCEPT !.done = TRUE, !.parser = "parse_markdown_cv",
                       !.record = parse_markdown_cv(cv.markdown)]
  /\ UNCHANGED <<conversation_sessions, stored, clock, reply, run, loader, rs, pp, fetch, proc, tasks, gen, pdfs, cls, prompt, pdf, info>>

\* pdf_generator.py:367: parse_cv_data is called with the text
ParseCvData ==
  /\ ~cv.done
  /\ cv' = [cv EXCEPT !.done = TRUE, !.parser = "parse_cv_data",
                       !.record = parse_cv_data(cv.markdown)]
  /\ UNCHANGED <<conversation_sessions, stored, clock, reply, run, loader, rs, pp, fetch, proc, tasks, gen, pdfs, cls, prompt, pdf, info>>

CvNext == ParseMarkdownCv \/ ParseCvData

SpecCv == CvInit /\ [][CvNext]_vars

\* /api/generate-cv: the professor named, what the database search returns
\* for the name, and what the model call does
ProfessorNames == {"Jane Doe", "Dr. Jane Doe", "John Roe"}
DbResults ==
  {NoRelevantText,
   EmbeddingsMissingText,
   "Dr. Jane Doe is a lecturer in biotechnology.",
   "Prof. Dr. Jane Doe. Born: Jakarta, 1970. SINTA Score: 12.5. Research: IoT and Computer Network.",
   "Jane Doe teaches antennas.",
   "Prof. John Roe, Universitas Indonesia. SINTA Score: 7"}
LlmReplies ==
  {[kind |-> "raises", text |-> ""],
   [kind |-> "ok", text |-> "Not enough data."],
   [kind |-> "ok",
    text |-> "# Dr. Jane Doe\n\n## PERSONAL INFORMATION\n- **Position**: Senior Lecturer\n- **Affiliation**: Institut Teknologi Bandung\n- **Email**: jane.doe[at]example.org\n\n## RESEARCH INTERESTS\n- **Antennas** and propagation\n"],
   [kind |-> "ok",
    text |-> "# Jane Doe\n\n## PERSONAL INFORMATION\n- **Position**: Not available\n- **Born**: Not available\n\n## ACADEMIC METRICS\n- SINTA Score: 12.5\n\n## EDUCATION\n- Not available\n"],
   [kind |-> "ok",
    text |-> "Jane Doe is a researcher at Example Institute. No further information about her education or her publications was found."],
   [kind |-> "ok",
    text |-> "There is a researcher of this name; the sources hold no position, no education and no publications for this person."]}

GenInit ==
  /\ gen \in [professor_name : ProfessorNames, db_result : DbResults, llm : LlmReplies,
               phase : {"request"}, cv_text : {""}, record : {<<>>}, story : {<<>>}]
  /\ conversation_sessions = Idle /\ stored = Idle /\ clock = Idle
  /\ reply = Idle /\ run = Idle /\ loader = Idle /\ rs = Idle /\ pp = Idle /\ cv = Idle /\ fetch = Idle /\ proc = Idle /\ tasks = Idle /\ pdfs = Idle /\ cls = Idle /\ prompt = Idle /\ pdf = Idle /\ info = Idle

\* main.py:307-315: generate_cv_with_agents(professor_name)
GenerateCvText ==
  /\ gen.phase = "request"
  /\ gen' = [gen EXCEPT !.phase = "generated",
                        !.cv_text = simplified_cv_generation(gen.professor_name, gen.db_result,
                                                             gen.llm).cv_text]
  /\ UNCHANGED <<conversation_sessions, stored, clock, reply, run, loader, rs, pp, cv, fetch, proc, tasks, pdfs, cls, prompt, pdf, info>>

\* main.py:342, pdf_generator.py:367: create_cv_pdf parses the text and
\* renders the record
CreateCvPdf ==
  /\ gen.phase = "generated"
  /\ gen' = [gen EXCEPT !.phase = "parsed", !.record = parse_cv_data(gen.cv_text),
                        !.story = cv_story(parse_cv_data(gen.cv_text))]
  /\ UNCHANGED <<conversation_sessions, stored, clock, reply, run, loader, rs, pp, cv, fetch, proc, tasks, pdfs, cls, prompt, pdf, info>>

GenNext == GenerateCvText \/ CreateCvPdf

SpecGen == GenInit /\ [][GenNext]_vars

\* uploads and queries about uploaded documents, by two sessions and by
\* requests without a session id
PdfSessions == {"session-A", "session-B", ""}
PdfTexts == {"Contract of A", "Thesis draft"}
MaxUploads == 2
MaxPdfQueries == 2
AcademicDoc == [text |-> "Dr. Jane Doe, lecturer", source_type |-> "academic", session_id |-> ""]

PdfInit ==
  /\ pdfs = [collection |-> <<AcademicDoc>>, current_session_id |-> "", search |-> <<>>,
             uploads |-> 0, queries |-> 0]
  /\ conversation_sessions = Idle /\ stored = Idle /\ clock = Idle
  /\ reply = Idle /\ run = Idle /\ loader = Idle /\ rs = Idle /\ pp = Idle /\ cv = Idle /\ fetch = Idle /\ proc = Idle /\ tasks = Idle /\ gen = Idle /\ cls = Idle /\ prompt = Idle /\ pdf = Idle /\ info = Idle

\* POST /api/upload-pdf with a one-chunk document
UploadPdf ==
  /\ pdfs.uploads < MaxUploads
  /\ \E session_id \in PdfSessions, text \in PdfTexts :
       pdfs' = [pdfs EXCEPT !.collection = Append(@, upload_doc(session_id, text)),
                            !.uploads = @ + 1]
  /\ UNCHANGED <<conversation_sessions, stored, clock, reply, run, loader, rs, pp, cv, fetch, proc, tasks, gen, cls, prompt, pdf, info>>

\* run_agentic_rag_crew(query, session_id=...) about the uploaded document
PdfQuery ==
  /\ pdfs.queries < MaxPdfQueries
  /\ \E session_id \in PdfSessions :
       pdfs' = [pdf_query(pdfs, session_id) EXCEPT !.queries = @ + 1]
  /\ UNCHANGED <<conversation_sessions, stored, clock, reply, run, loader, rs, pp, cv, fetch, proc, tasks, gen, cls, prompt, pdf, info>>

PdfNext == UploadPdf \/ PdfQuery

SpecPdf == PdfInit /\ [][PdfNext]_vars

\* queries for the classifier: a request, what it is about, and a further
\* demand
QueryOpenings == {"list all", "list of the", "give me a list of", "show me the", "who is",
                  "compare", "verify the", "daftar"}
QuerySubjects == {"lecturers", "professors", "staff", "Jane Doe", "dosen"}
QueryDemands == {"", " in detail", " and compare their publications",
                 " and verify their degrees"}
ClassifierQueries ==
  {opening \o " " \o subject \o demand :
     opening \in QueryOpenings, subject \in QuerySubjects, demand \in QueryDemands}

ClsInit ==
  /\ cls \in [query : ClassifierQueries, done : {FALSE}, query_type : {""}]
  /\ conversation_sessions = Idle /\ stored = Idle /\ clock = Idle
  /\ reply = Idle /\ run = Idle /\ loader = Idle /\ rs = Idle /\ pp = Idle /\ cv = Idle /\ fetch = Idle /\ proc = Idle /\ tasks = Idle /\ gen = Idle /\ pdfs = Idle /\ prompt = Idle /\ pdf = Idle /\ info = Idle

\* agent_core_simple.py:54: query_type = self._detect_query_type(user_query)
DetectQueryType ==
  /\ ~cls.done
  /\ cls' = [cls EXCEPT !.done = TRUE, !.query_type = detect_query_type(cls.query)]
  /\ UNCHANGED <<conversation_sessions, stored, clock, reply, run, loader, rs, pp, cv, fetch, proc, tasks, gen, pdfs, prompt, pdf, info>>

ClsNext == DetectQueryType

SpecCls == ClsInit /\ [][ClsNext]_vars


----------------------------------------------------------------------------
(* Claims *)

\* the turns stored for one session, in arrival order
RECURSIVE TurnsOf(_, _)
TurnsOf(log, sid) ==
  IF Len(log) = 0 THEN <<>>
  ELSE (IF log[1].session_id = sid THEN <<log[1].turn>> ELSE <<>>) \o TurnsOf(Tail(log), sid)

\* C1: after any sequence of store_conversation calls every session holds at
\* most 10 turns, and they are the most recent turns stored for that session,
\* in arrival order (so the turn evicted by an 11th store is the oldest one).
C1_SessionsHoldMostRecentTurns ==
  \A sid \in DOMAIN conversation_sessions :
    /\ Len(conversation_sessions[sid]) <= 10
    /\ conversation_sessions[sid] = LastN(TurnsOf(stored, sid), 10)

\* a session that received more than 10 turns: the oldest have been evicted
C1_Witness ==
  \E sid \in DOMAIN conversation_sessions :
    /\ Len(TurnsOf(stored, sid)) > 10
    /\ Len(conversation_sessions[sid]) = 10
    /\ conversation_sessions[sid][1] # TurnsOf(stored, sid)[1]

\* C2: every request to /api/chat is answered with an object that carries
\* response and session_id; an exception inside the handling is replaced by a
\* fixed fallback text and the error itself is not part of the answer.
C2_EveryReplyWellFormed ==
  reply # Idle =>
    /\ {"response", "session_id"} \subseteq DOMAIN reply.content
    /\ "error" \notin DOMAIN reply.content

\* a pipeline run that has finished
Ran == run # Idle /\ run.pipeline # "none"

\* every fetcher invocation of the run failed or came back with nothing
AllFetchersFailed == \A i \in 1..Len(run.fetch_log) : ~run.fetch_log[i].ok

\* the fixed fallback texts of the two pipelines, for the query of the run
FallbackTexts ==
  {HybridRAG_emergency_fallback(run.query), HybridRAG_emergency_fallback(run.resolved),
   SimpleRAG_emergency_fallback(run.query)}

\* C3: when every fetcher invoked for a query failed or returned nothing, the
\* response is the fixed fallback text and no synthesis step (the crew, the
\* basic lookup) has run.
C3_AllFetchersFailedGivesFallback ==
  Ran /\ AllFetchersFailed =>
    /\ run.response \in FallbackTexts
    /\ "run_crew" \notin SeqToSet(run.steps)
    /\ "basic_lookup" \notin SeqToSet(run.steps)

\* C4: the context handed to synthesis holds the text of no fetch that failed.
C4_NoFailedFetchInContext ==
  Ran => \A i \in 1..Len(run.fetch_log) :
           ~run.fetch_log[i].ok /\ run.fetch_log[i].text # ""
             => ~Contains(run.context, run.fetch_log[i].text)

\* no identifier occurs twice in a log of fetcher invocations
NoRepeats(log) == \A i, j \in 1..Len(log) : i # j => log[i].id # log[j].id

\* C5: in one aggregation run, a chat query or a loader run over any list of
\* sources, no identifier (URL or query) is fetched twice.
C5_NoIdentifierFetchedTwice ==
  /\ Ran => NoRepeats(run.fetch_log)
  /\ loader # Idle => NoRepeats(loader.log)

\* the pronouns among the whitespace-separated tokens of a text
PronounTokens(text) == SeqToSet(Words(Lower(text))) \cap pronouns

\* the capitalised words of a text
CapWordsIn(text) == SeqToSet(FindAll(text, <<>>, CapWord))

\* whether the word occurs in a turn of the history
InHistory(word, history) ==
  \E i \in 1..Len(history) : Contains(history[i].user, word) \/ Contains(history[i].assistant, word)

Persons == {"Jane Doe", "Bob Ray"}
NamedIn(history) == {n \in Persons : InHistory(n, history)}

\* C7: for a query with a pronoun, when a prior turn names a person, the
\* resolved text contains the person's name and no pronoun token remains.
C7_PronounReplacedByName ==
  rs # Idle /\ rs.done /\ PronounTokens(rs.query) # {} /\ NamedIn(rs.history) # {} =>
    /\ \E n \in NamedIn(rs.history) : Contains(rs.resolved, n)
    /\ PronounTokens(rs.resolved) = {}

\* the phrases of a line about birth, marriage or family
PersonalPhrases == {"born in", "born on", "married to", "children", "wife", "husband"}
IsPersonalLine(line) == ContainsAny(Lower(line), PersonalPhrases)
HasRoleKeyword(line) == ContainsAny(Lower(line), professional_keywords)

\* the steps that filter personal information: the two filters and the three
\* paths of a response through post-processing
FilteringSteps == PostSteps \ {"HybridRAG._safety_check", "SimpleRAG._deduplicate_gentle"}

\* C8: on every path through post-processing, a line about birth, marriage or
\* family that has no professional-role keyword is removed ("born in 1975"),
\* and a line that has a professional-role keyword is retained
\* ("Chairperson, born committee").
C8_PersonalLinesRemovedRoleLinesKept ==
  pp # Idle /\ pp.stage >= 1 /\ pp.step \in FilteringSteps /\ Len(pp.input) <= SafetyLimit =>
    \A line \in SeqToSet(Split(pp.input, NL)) \ {""} :
      /\ IsPersonalLine(line) /\ ~HasRoleKeyword(line)
           => line \notin SeqToSet(Split(pp.output, NL))
      /\ HasRoleKeyword(line) => line \in SeqToSet(Split(pp.output, NL))

\* C10: the dedup steps are idempotent: _safety_check and _deduplicate_gentle
\* applied to their own output give that output again.
C10_DedupIdempotent ==
  pp # Idle /\ pp.stage = 2
    /\ pp.step \in {"HybridRAG._safety_check", "SimpleRAG._deduplicate_gentle"}
  => pp.again = pp.output

\* whether the text holds a year: four digits in a row
HasYear(text) == Search(text, <<Cls(DigitChars), Cls(DigitChars), Cls(DigitChars), Cls(DigitChars)>>)

\* the venues the candidate lines speak of
Venues == {"IEEE Access", "IEEE Transactions on Antennas and Propagation"}

\* whether the entry names a venue and has a title besides it
HasTitleAndVenue(entry) ==
  \E v \in Venues : Contains(entry, v) /\ Strip(ReSub(<<Lit({v})>>, "", entry)) # ""
                    /\ ~StartsWith(Lower(entry), "source:")

\* C9: every entry accepted into the publications list has a title, a year
\* and a venue; a venue name alone or a "source: X" line alone is rejected.
C9_AcceptedPublicationsComplete ==
  cv # Idle /\ cv.done =>
    \A i \in 1..Len(cv.record.publications) :
      HasYear(cv.record.publications[i]) /\ HasTitleAndVenue(cv.record.publications[i])

\* C11: a run of SimpleRAG.query whose query is classified SIMPLE_LIST or
\* BASIC_LOOKUP invokes one fetcher only, the vector search, once, whatever
\* URLs the request carries
C11_SimpleTiersFetchPrimaryStoreOnly ==
  Ran /\ run.pipeline = "SimpleRAG"
      /\ detect_query_type(run.query) \in {"SIMPLE_LIST", "BASIC_LOOKUP"} =>
    /\ Len(run.fetch_log) = 1
    /\ run.fetch_log[1].fetcher = "academic_search_tool"
    /\ run.fetch_log[1].id = run.query

C11_Witness ==
  /\ Ran /\ run.pipeline = "SimpleRAG"
  /\ run.query = "list all lecturers" /\ detect_query_type(run.query) = "SIMPLE_LIST"
  /\ Len(run.urls) > 0 /\ Len(run.fetch_log) = 1

\* C12: every fetcher call returns a result: the call ends, no exception
\* leaves it, and a staff-listing fetch that times out on every attempt
\* returns its failure text once the attempts are used up
C12_EveryFetcherCallReturns ==
  <>(fetch # Idle /\ fetch.phase = "returned" /\ fetch.result \in STRING
       /\ fetch.requests <= max_retries)

C12_Witness ==
  /\ fetch # Idle /\ fetch.fetcher = "_scrape_ui_staff_page"
  /\ fetch.phase = "returned" /\ fetch.requests = max_retries
  /\ fetch.retried_after = <<"timeout", "timeout">>
  /\ fetch.result = StaffTimeoutText(fetch.id)

\* the failures a retry can cure: a timeout and a transient HTTP failure; a
\* page that is not found stays not found
Recoverable(outcome, page) ==
  \/ outcome = "timeout"
  \/ outcome = "http_error" /\ ~Contains(page.error, "404")

\* C20: a fetch of the staff listing makes at most 3 attempts, every retry
\* follows a recoverable failure, and each delay before a retry is larger
\* than the one before it
C20_BoundedRetriesWithGrowingDelay ==
  fetch # Idle /\ fetch.fetcher = "_scrape_ui_staff_page" =>
    /\ fetch.requests <= 3
    /\ \A i \in 1..Len(fetch.retried_after) : Recoverable(fetch.retried_after[i], fetch.world)
    /\ \A i \in 2..Len(fetch.sleeps) : fetch.sleeps[i] > fetch.sleeps[i - 1]

C14_NoTurnLostUnderConcurrentRequests ==
  tasks # Idle /\ (\A k \in DOMAIN tasks.t : tasks.t[k].pc = "done") =>
    /\ \A sid \in SessionIds :
         SessionGet(conversation_sessions, sid) = LastN(TurnsOf(stored, sid), 10)
    /\ \A k \in DOMAIN tasks.t :
         tasks.t[k].status = 200 =>
           \E i \in 1..Len(SessionGet(conversation_sessions, tasks.t[k].request.session_id)) :
             /\ conversation_sessions[tasks.t[k].request.session_id][i].user
                  = tasks.t[k].request.message
             /\ conversation_sessions[tasks.t[k].request.session_id][i].assistant
                  = tasks.t[k].result

\* two requests for the same full session have both been answered
C14_Witness ==
  /\ tasks # Idle
  /\ \A k \in DOMAIN tasks.t : tasks.t[k].pc = "done" /\ tasks.t[k].status = 200
  /\ tasks.t[1].request.session_id = tasks.t[2].request.session_id
  /\ Len(TurnsOf(stored, tasks.t[1].request.session_id)) = 12
  /\ Len(conversation_sessions[tasks.t[1].request.session_id]) = 10

\* what a CV request has to draw on: the name asked for, the text of the
\* database search and the reply of the model call (as delivered, with and
\* without the bold markers)
GenSources(g) ==
  {g.professor_name, g.db_result}
  \cup (IF g.llm.kind = "ok" THEN {convert_at(g.llm.text), Unbold(convert_at(g.llm.text))} ELSE {})

\* a value that is empty, an explicit placeholder, or found in a source
Sourced(value, g) ==
  \/ Strip(value) = ""
  \/ Lower(Strip(value)) \in {"not available", "unknown"}
  \/ \E src \in GenSources(g) : Contains(src, Strip(value))

\* the values a CV text states: the heading and what each bullet holds
TextValues(cv_text) ==
  Only({{Strip(DropPrefix(lines[i], 2)) : i \in {k \in 1..Len(lines) : StartsWith(lines[k], "# ")}}
        \cup {IF Contains(lines[i], ":") THEN AfterColon(lines[i]) ELSE Strip(DropPrefix(lines[i], 2)) :
                i \in {k \in 1..Len(lines) : StartsWith(lines[k], "- ")}} :
          lines \in {Split(cv_text, NL)}})

\* the values a CV record holds
RecordValues(record) ==
  {record.name, record.title, record.affiliation, record.department, record.email,
   record.birth_info, record.sinta_score}
  \cup SeqToSet(record.research_areas) \cup SeqToSet(record.education)
  \cup SeqToSet(record.positions) \cup SeqToSet(record.publications)

\* C15: no field of the CV text or of the CV record is invented: every
\* value is found in the sources of the request, or it is empty or an
\* explicit placeholder, on the normal path and when the model call fails.
C15_NoCvFieldInvented ==
  gen # Idle =>
    /\ gen.phase \in {"generated", "parsed"} =>
         \A value \in TextValues(gen.cv_text) : Sourced(value, gen)
    /\ gen.phase = "parsed" =>
         \A value \in RecordValues(gen.record) : Sourced(value, gen)

\* C16: from the fixture "## EDUCATION" / "- PhD, Example University, 2010"
\* the extractor yields one education entry, an entry with fields, whose
\* institution is "Example University" and whose year is "2010".
C16_EducationFixtureGivesTypedEntry ==
  cv # Idle /\ cv.done /\ cv.markdown = EducationFixture =>
    /\ Len(cv.record.education) = 1
    /\ cv.record.education[1] \notin STRING
    /\ cv.record.education[1].institution = "Example University"
    /\ cv.record.education[1].year = "2010"

\* C17: the uploaded-document search is scoped to the requesting session:
\* a search made for a session retrieves only chunks uploaded with that
\* session id, and a request without a session id does not run under the
\* session id an earlier request left.
C17_PdfSearchScopedToSession ==
  pdfs # Idle /\ pdfs.search # <<>> =>
    /\ \A i \in 1..Len(pdfs.search.docs) :
         pdfs.search.docs[i].session_id = pdfs.search.session_id
    /\ pdfs.search.session_id = "" => pdfs.search.context = ""

\* C18: when a request carries user_urls, the run scrapes each of the URLs
\* and the context the answer is made from holds what the scraper returned
\* for each.
C18_UserUrlsScrapedIntoContext ==
  run # Idle /\ run.pipeline # "none" /\ Len(run.urls) > 0 =>
    \A i \in 1..Len(run.urls) :
      \E k \in 1..Len(run.fetch_log) :
        /\ run.fetch_log[k].fetcher = "dynamic_web_scraper_tool"
        /\ run.fetch_log[k].id = run.urls[i]
        /\ Contains(run.context, run.fetch_log[k].text)

\* the place of the first step of the kind in the steps of a run, 0 when
\* the run has none
FirstStep(steps, kinds) ==
  IF \E i \in 1..Len(steps) : steps[i] \in kinds
  THEN SetMin({i \in 1..Len(steps) : steps[i] \in kinds}) ELSE 0

\* what the context resolver makes of the query of a run
ResolvedQuery(r) ==
  IF Len(r.history) > 0 THEN resolve_pronouns_in_query(r.query, r.history) ELSE r.query

\* C19: in every query-handling run the resolver runs before the
\* classifier, the classifier before the first fetcher, and every search
\* of the stores uses the resolved query text.
C19_ResolveClassifyFetchInOrder ==
  run # Idle /\ run.pipeline # "none" =>
    /\ FirstStep(run.steps, {"detect_query_type"}) > 0
    /\ FirstStep(run.steps, {"detect_query_type"})
         < FirstStep(run.steps, {"vector_search", "scrape_urls"})
    /\ Len(run.history) > 0 =>
         /\ FirstStep(run.steps, {"resolve_pronouns"}) > 0
         /\ FirstStep(run.steps, {"resolve_pronouns"})
              < FirstStep(run.steps, {"detect_query_type"})
    /\ \A k \in 1..Len(run.fetch_log) :
         run.fetch_log[k].fetcher = "academic_search_tool" =>
           run.fetch_log[k].id = ResolvedQuery(run)

\* the response of the attempt just made was a 404
NotFoundAt(f, attempt) ==
  IF f.fetcher = "_scrape_ui_staff_page"
  THEN f.world.attempts[attempt] = "http_error" /\ Contains(f.world.error, "404")
  ELSE f.fetcher = "scrape_eng_ui_personnel" /\ f.world.response = "404"

\* C21: a permanent not-found ends the fetch at once: after a 404 response
\* no further attempt is made and no backoff sleep happens.
C21_NotFoundEndsFetchAtOnce ==
  fetch # Idle /\ fetch.requests >= 1 /\ NotFoundAt(fetch, 1) =>
    /\ fetch.requests = 1
    /\ fetch.sleeps = <<>>
    /\ fetch.phase = "returned"

\* the query matches one of the roster-list patterns
MatchesListPattern(query) ==
  \E k \in 1..Len(simple_list_patterns(Lower(query))) :
    Search(Lower(query), simple_list_patterns(Lower(query))[k])

\* the query asks for detail, a comparison or a verification
MatchesDetailPattern(query) ==
  \E word \in {"detail", "compare", "verify"} :
    Search(Lower(query), <<WB, Lit({word})>>)

\* C22: the classifier returns SIMPLE_LIST only for a query that matches a
\* roster-list pattern and does not also match a detailed/compare/verify
\* pattern.
C22_SimpleListOnlyWithoutDetailPattern ==
  cls # Idle /\ cls.done /\ cls.query_type = "SIMPLE_LIST" =>
    MatchesListPattern(cls.query) /\ ~MatchesDetailPattern(cls.query)

----------------------------------------------------------------------------
(* The fetched text in the prompt of the language model.                    *)

\* agent_core.py:799-806: the noise patterns, each "start.*?end" under
\* re.DOTALL; the third starts with "Copyright (c) 2" and three digits, its
\* copyright sign being written here as (c)
noise_patterns(s) == <<
  <<Lit({"Powered by Pure, Scopus"}), Star(<<AnyChar(s)>>), Lit({"Contact us"})>>,
  <<Lit({"All rights are reserved"}), Star(<<AnyChar(s)>>), Lit({"Contact us"})>>,
  <<Lit({"Copyright (c) 2"}), Cls(DigitChars), Cls(DigitChars), Cls(DigitChars),
    Star(<<AnyChar(s)>>), Lit({"cookies"})>>,
  <<Lit({"We use cookies"}), Star(<<AnyChar(s)>>), Lit({"cookies"})>>,
  <<Lit({"Log in to Pure"}), Star(<<AnyChar(s)>>), Lit({"Contact us"})>>,
  <<Lit({"About web accessibility"}), Star(<<AnyChar(s)>>), Lit({"Contact us"})>> >>

\* re.sub(pattern, '', s, flags=re.DOTALL) with a lazy repetition
ReSubLazy(items, repl, s) ==
  Only({Replaced(t, ms, repl, 1, 1) : t \in {s}, ms \in {LazyMatches(s, items)}})

\* agent_core.py:808-810: the patterns removed one after the other
RECURSIVE RemoveNoise(_, _)
RemoveNoise(s, k) ==
  IF k > Len(noise_patterns(s)) THEN s
  ELSE Only({RemoveNoise(t, k + 1) : t \in {ReSubLazy(noise_patterns(s)[k], "", s)}})

\* agent_core.py:815-817
ContextLimit == 8000
ContextMarker == "\n\n[Context truncated - focusing on most relevant publications]"

\* HybridRAG._clean_context_for_publications (agent_core.py:796-819)
clean_context_for_publications(context) ==
  Only({IF Len(cleaned) > ContextLimit
        THEN Prefix(cleaned, ContextLimit) \o ContextMarker ELSE cleaned :
          cleaned \in {ReSub(<<Ws1>>, " ", RemoveNoise(context, 1))}})

\* agent_core.py:577-583
pdf_keywords ==
  {"pdf", "dokumen", "document", "file", "upload", "yang saya kasih",
   "yang saya berikan", "dari pdf", "isi pdf", "rangkum", "summarize", "jelasin",
   "explain", "jelaskan", "apa isi", "what is in", "contents of", "isi dari",
   "tentang pdf", "url", "website", "web", "link", "wikipedia", "dari url",
   "isi url", "isi website", "dari website", "yang saya upload", "yang diupload"}
is_pdf_query(query) == ContainsAny(Lower(query), pdf_keywords)

\* HybridRAG._run_crew (agent_core.py:623-631, 634-733): the fetched text in
\* the task description; the descriptions of a PDF or URL query leave the
\* context prefix out
run_crew_context(query, context) ==
  IF is_pdf_query(query) \/ context = "" THEN ""
  ELSE clean_context_for_publications(context)

\* agent_core_simple.py:227-228
list_keywords == {"list", "all", "daftar", "semua"}
is_list_query(query) == ContainsAny(Lower(query), list_keywords)

\* agent_core_simple.py:263
BasicLookupLimit == 3000

\* SimpleRAG._basic_lookup (agent_core_simple.py:230-272): the fetched text
\* under "Database Information:" in the prompt
basic_lookup_context(query, vector_results) ==
  IF is_list_query(query) THEN vector_results
  ELSE Prefix(vector_results, BasicLookupLimit)

\* the tiers' prompt builders
PromptTiers == {"SimpleRAG._basic_lookup", "HybridRAG._run_crew"}
PromptQueries ==
  {"list all lecturers", "daftar dosen", "who is Jane Doe",
   "publications of Jane Doe", "rangkum pdf", "tell me about Jane Doe"}
\* fetched results: none, short ones, ones with noise and runs of
\* whitespace, and ones around the two limits
FetchedTexts ==
  {"", "Dr. Jane Doe is a lecturer",
   "Name:  Jane\n\nDoe",
   "Publications Powered by Pure, Scopus & Elsevier\nContact us end",
   "We use cookies to help. Accept cookies Copyright (c) 2024 UI, cookies",
   Repeat("x", BasicLookupLimit + 1),
   Repeat("x", ContextLimit),
   Repeat("x", ContextLimit + 1),
   Repeat("x", ContextLimit) \o " Log in to Pure now Contact us",
   Repeat("x", 2 * ContextLimit)}

PromptInit ==
  /\ prompt \in [tier : PromptTiers, query : PromptQueries, fetched : FetchedTexts,
                 built : {FALSE}, context : {""}]
  /\ conversation_sessions = Idle /\ stored = Idle /\ clock = Idle
  /\ reply = Idle /\ run = Idle /\ loader = Idle /\ rs = Idle /\ pp = Idle /\ cv = Idle /\ fetch = Idle /\ proc = Idle /\ tasks = Idle /\ gen = Idle /\ pdfs = Idle /\ cls = Idle /\ pdf = Idle /\ info = Idle

\* the tier builds its prompt from the query and the fetched results
BuildPrompt ==
  /\ ~prompt.built
  /\ prompt' = [prompt EXCEPT
       !.built = TRUE,
       !.context = IF prompt.tier = "HybridRAG._run_crew"
                   THEN run_crew_context(prompt.query, prompt.fetched)
                   ELSE basic_lookup_context(prompt.query, prompt.fetched)]
  /\ UNCHANGED <<conversation_sessions, stored, clock, reply, run, loader, rs, pp, cv, fetch, proc, tasks, gen, pdfs, cls, pdf, info>>

PromptNext == BuildPrompt

SpecPrompt == PromptInit /\ [][PromptNext]_vars

\* C23: on every tier the fetched text placed in the prompt is never longer
\* than the truncation ceiling plus the truncation marker, whatever the size
\* of the fetched results.
C23_PromptContextBounded ==
  prompt # Idle /\ prompt.built =>
    Len(prompt.context) <= ContextLimit + Len(ContextMarker)

\* a list query of tier 1/2 with fetched results beyond the ceiling
C23_Witness ==
  prompt # Idle /\ prompt.built /\ prompt.tier = "SimpleRAG._basic_lookup"
    /\ is_list_query(prompt.query) /\ Len(prompt.fetched) > ContextLimit + Len(ContextMarker)

\* s.endswith(p)
EndsWith(s, p) == Len(s) >= Len(p) /\ SubSeq(s, Len(s) - Len(p) + 1, Len(s)) = p

\* the post-processing of the tiers: SimpleRAG.query on tier 1/2 and on
\* tier 3, and HybridRAG.query
QuerySteps == {"HybridRAG.query", "SimpleRAG.query basic", "SimpleRAG.query complex"}

\* agent_core.py:110-111, 480-482: the response a tier-3 step cuts, the one
\* whose filtered text is longer than the limit; tier 1/2 has no such step
WasCut(step, input) ==
  step # "SimpleRAG.query basic"
    /\ Len(HybridRAG_filter_personal_info(input)) > SafetyLimit

\* C24: on every tier the response returned after post-processing is no
\* longer than the length ceiling plus the truncation marker, and every
\* response that was cut ends with the truncation marker.
C24_ResponseWithinCeiling ==
  pp # Idle /\ pp.stage >= 1 /\ pp.step \in QuerySteps =>
    /\ Len(pp.output) <= SafetyLimit + Len(TruncationMarker)
    /\ WasCut(pp.step, pp.input) => EndsWith(pp.output, Strip(TruncationMarker))
\* a tier-1/2 response longer than the ceiling plus the marker
C24_Witness ==
  pp # Idle /\ pp.stage >= 1 /\ pp.step = "SimpleRAG.query basic"
    /\ Len(pp.input) > SafetyLimit + Len(TruncationMarker)

\* agent_core.py:490-493: how often the stripped line occurs in the text
\* (blank lines are not counted)
Occurrences(text, line) ==
  Cardinality({i \in 1..Len(Split(text, NL)) : Strip(Split(text, NL)[i]) = line})
RepeatsBeyondThreshold(text) ==
  \E line \in SeqToSet(StripAll(Split(text, NL))) \ {""} :
    Occurrences(text, line) > MaxOccurrences

\* agent_core.py:498-500, agent_core_simple.py:374-376: how the fixed
\* fallback messages start (after their warning sign)
FallbackOpenings ==
  {"I encountered an error while processing your request.",
   "I encountered an error processing your request"}
IsFallbackMessage(text) == \E opening \in FallbackOpenings : StartsWith(text, opening)

\* C25: when a line of the synthesis output occurs more often than the
\* threshold, the response returned is the fixed fallback message.
C25_RunawayReplacedByFallback ==
  pp # Idle /\ pp.stage >= 1 /\ pp.step \in QuerySteps
    /\ RepeatsBeyondThreshold(pp.input) => IsFallbackMessage(pp.output)

\* the content-level dedup steps (agent_core.py:484-496,
\* agent_core_simple.py:355-372)
DedupSteps == {"HybridRAG._safety_check", "SimpleRAG._deduplicate_gentle"}

\* the lines at the positions in keep, in their order
RECURSIVE LinesAt(_, _, _)
LinesAt(lines, keep, i) ==
  IF i > Len(lines) THEN <<>>
  ELSE (IF i \in keep THEN <<lines[i]>> ELSE <<>>) \o LinesAt(lines, keep, i + 1)

\* the positions of the lines that are blank or are the first or second
\* occurrence of their (stripped) text
UpToSecondOccurrence(lines) ==
  {i \in 1..Len(lines) :
     \/ Strip(lines[i]) = ""
     \/ Cardinality({j \in 1..i : Strip(lines[j]) = Strip(lines[i])}) <= MaxOccurrences}

\* C26: the content-level dedup leaves out exactly the occurrences of a line
\* from the third on; every other line, blank lines and the first two
\* occurrences of a repeated line included, is passed on unmodified and in
\* its original order.
C26_DedupDropsFromThirdOccurrence ==
  pp # Idle /\ pp.stage >= 1 /\ pp.step \in DedupSteps /\ Len(pp.input) <= SafetyLimit =>
    Split(pp.output, NL) =
      LinesAt(Split(pp.input, NL), UpToSecondOccurrence(Split(pp.input, NL)), 1)

\* pdf_generator.py:130-176: the sections whose list lines fill each list
\* field of the record
field_sections ==
  [education      |-> {"EDUCATION", "ACADEMIC BACKGROUND"},
   positions      |-> position_sections,
   research_areas |-> research_sections,
   publications   |-> publication_sections]

\* pdf_generator.py:78, 170: the length an entry exceeds
MinDataLength == 3
MinLengthOf(field) ==
  IF field = "publications" THEN MinPublicationLength ELSE MinDataLength

\* a list line: a bullet, or under the publications a numbered line
IsListLine(line, field) ==
  StartsWith(line, "- ") \/ (field = "publications" /\ IsNumbered(line))
\* the text of a list line, without its bullet or number and its bold marks
ItemText(line) ==
  Unbold(IF IsNumbered(line) THEN DropNumber(line) ELSE Strip(DropPrefix(line, 2)))

\* a text that is an unavailable/placeholder phrase: one that states
\* "not available", "n/a" or "none", or is a lone dash
IsPlaceholder(text) ==
  \/ ContainsAny(Strip(Lower(text)), invalid_phrases \ {"-"})
  \/ Strip(text) = "-"

\* the list lines under the sections of a field that are neither a
\* placeholder nor too short, in their order; section is the current one
RECURSIVE ListEntries(_, _, _, _)
ListEntries(lines, i, section, field) ==
  IF i > Len(lines) THEN <<>>
  ELSE IF StartsWith(Strip(lines[i]), "## ")
  THEN ListEntries(lines, i + 1, Upper(Strip(DropPrefix(Strip(lines[i]), 3))), field)
  ELSE (IF section \in field_sections[field] /\ IsListLine(Strip(lines[i]), field)
           /\ ~IsPlaceholder(ItemText(Strip(lines[i])))
           /\ Len(ItemText(Strip(lines[i]))) > MinLengthOf(field)
        THEN <<ItemText(Strip(lines[i]))>> ELSE <<>>)
       \o ListEntries(lines, i + 1, section, field)

\* C27: parse_markdown_cv appends every list line under a recognised section
\* that is neither a placeholder phrase nor shorter than the minimum length,
\* in order of appearance, to the field of that section and to no other
\* field: each list field holds exactly those lines.
C27_ListLinesReachTheirField ==
  cv # Idle /\ cv.done /\ cv.parser = "parse_markdown_cv" =>
    \A field \in DOMAIN field_sections :
      cv.record[field] = ListEntries(Split(cv.markdown, NL), 1, "", field)

\* profile texts with a given number of list lines in each section
RECURSIVE ListLines(_, _, _)
ListLines(text, n, i) ==
  IF i > n THEN ""
  ELSE "- " \o text \o " " \o ToString(i) \o NL \o ListLines(text, n, i + 1)
ProfileText(n) ==
  "# Dr. Jane Doe\n\n## PERSONAL INFORMATION\n- **Position**: Senior Lecturer\n"
  \o "\n## CURRENT POSITIONS\n" \o ListLines("Head of laboratory", n.positions, 1)
  \o "\n## RESEARCH INTERESTS\n" \o ListLines("Antenna design, part", n.research_areas, 1)
  \o "\n## EDUCATION\n" \o ListLines("Doctor of Engineering, Example University", n.education, 1)
  \o "\n## PUBLICATIONS\n" \o ListLines("Wideband Antenna Design, volume", n.publications, 1)

\* list lengths below, at and above the cap of each section
ProfileSizes ==
  [positions      : {0, 1, max_positions, max_positions + 2},
   research_areas : {0, max_research_areas, max_research_areas + 1},
   education      : {0, 1, max_education + 1},
   publications   : {0, max_publications, max_publications + 3}]

RenderInit ==
  /\ pdf \in [sizes : ProfileSizes, rendered : {FALSE}, cv_data : {<<>>}, story : {<<>>}]
  /\ conversation_sessions = Idle /\ stored = Idle /\ clock = Idle
  /\ reply = Idle /\ run = Idle /\ loader = Idle /\ rs = Idle /\ pp = Idle /\ cv = Idle /\ fetch = Idle /\ proc = Idle /\ tasks = Idle /\ gen = Idle /\ pdfs = Idle /\ cls = Idle /\ prompt = Idle /\ info = Idle

\* create_cv_pdf(profile_data): the text is parsed and the record rendered
RenderCvPdf ==
  /\ ~pdf.rendered
  /\ pdf' = [pdf EXCEPT !.rendered = TRUE,
                        !.cv_data = parse_cv_data(ProfileText(pdf.sizes)),
                        !.story = cv_story(parse_cv_data(ProfileText(pdf.sizes)))]
  /\ UNCHANGED <<conversation_sessions, stored, clock, reply, run, loader, rs, pp, cv, fetch, proc, tasks, gen, pdfs, cls, prompt, info>>

RenderNext == RenderCvPdf

SpecRender == RenderInit /\ [][RenderNext]_vars

\* the positions in the story of the section titles
TitleAt(story, title) ==
  {i \in 1..Len(story) : story[i] = Paragraph(title, "CVSectionTitle")}
\* the section of a title: the paragraphs after it up to the next spacer
SectionBody(story, title) ==
  Only({SubSeq(story, start + 1,
               SetMin({j \in start..Len(story) : story[j] = Spacer}) - 1) :
          start \in TitleAt(story, title)})
\* a trailer that tells how many entries are not shown
IsTrailer(paragraph, n) ==
  Contains(paragraph.text, "and " \o ToString(n) \o " more")

\* the sections in the order of the claim: the field, the title, the cap
RenderedSections ==
  <<[field |-> "positions",      title |-> "CURRENT POSITIONS",     cap |-> max_positions],
    [field |-> "research_areas", title |-> "RESEARCH INTERESTS",    cap |-> max_research_areas],
    [field |-> "education",      title |-> "EDUCATION",             cap |-> max_education],
    [field |-> "publications",   title |-> "SELECTED PUBLICATIONS", cap |-> max_publications]>>

\* the sections are in the order positions, research areas, education,
\* publications, and each shows at most its cap of entries
SectionsOrderedAndCapped ==
  pdf # Idle /\ pdf.rendered =>
    /\ \A a, b \in 1..Len(RenderedSections) :
         a < b => \A i \in TitleAt(pdf.story, RenderedSections[a].title) :
                    \A j \in TitleAt(pdf.story, RenderedSections[b].title) : i < j
    /\ \A a \in 1..Len(RenderedSections) :
         LET sec == RenderedSections[a]
             shown == IF Len(pdf.cv_data[sec.field]) > sec.cap
                      THEN sec.cap ELSE Len(pdf.cv_data[sec.field])
         IN  /\ (Len(pdf.cv_data[sec.field]) > 0) = (TitleAt(pdf.story, sec.title) # {})
             /\ Len(pdf.cv_data[sec.field]) > 0 =>
                  \A k \in 1..shown :
                    Contains(SectionBody(pdf.story, sec.title)[k].text,
                             pdf.cv_data[sec.field][k])

\* C28: create_cv_pdf renders positions, research areas, education and
\* publications in that order, each with at most its cap of entries, and
\* every section whose list is longer than its cap ends with a trailer
\* "... and N more" where N is the number of entries not shown.
C28_EverySectionOverCapHasTrailer ==
  pdf # Idle /\ pdf.rendered =>
    /\ SectionsOrderedAndCapped
    /\ \A a \in 1..Len(RenderedSections) :
         LET sec == RenderedSections[a]
             n == Len(pdf.cv_data[sec.field])
         IN  n > sec.cap =>
               /\ Len(SectionBody(pdf.story, sec.title)) = sec.cap + 1
               /\ IsTrailer(SectionBody(pdf.story, sec.title)[sec.cap + 1], n - sec.cap)

\* agent_core.py:213, 220-223: the phrases and the nouns of the substitution
about_phrases == {"about him", "about her", "about them"}
possessive_nouns == {"research", "publications"}
possessive_pronouns == {"his", "her"}

\* the resolver has a referent: the most recent name (agent_core.py:156-204)
HasReferent(r) ==
  Len(r.history) > 0 /\ has_pronoun(r.query) /\ Len(extracted_names(r.history)) > 0
\* a possessive pronoun before the noun, as words of the query
PossessiveBefore(query, noun) ==
  Search(Lower(query), <<WB, Lit(possessive_pronouns), Lit({" " \o noun}), WB>>)
AppendForm(name) == "(referring to " \o name \o ")"

\* C29: with a referent, a query with a possessive pronoun before a known
\* noun and without an "about him/her/them" phrase is resolved to a text
\* that holds "<Name>'s research" / "<Name>'s publications"; the append form
\* "(referring to <Name>)" is used only when the query has neither an
\* about-phrase nor such a possessive.
C29_PossessiveFormUsed ==
  rs # Idle /\ rs.done /\ HasReferent(rs) =>
    LET name == extracted_names(rs.history)[1] IN
      /\ \A noun \in possessive_nouns :
           PossessiveBefore(rs.query, noun) /\ ~ContainsAny(Lower(rs.query), about_phrases)
             => Contains(rs.resolved, name \o "'s " \o noun)
      /\ Contains(rs.resolved, AppendForm(name))
           => /\ ~ContainsAny(Lower(rs.query), about_phrases)
              /\ \A noun \in possessive_nouns : ~PossessiveBefore(rs.query, noun)

\* main.py:568-581: GET /api/session/{session_id}
get_session_info(session_id) ==
  IF session_id \notin DOMAIN conversation_sessions
  THEN [status_code |-> 404, content |-> [error |-> "Session not found"]]
  ELSE [status_code |-> 200,
        content |-> [session_id    |-> session_id,
                     message_count |-> Len(conversation_sessions[session_id]),
                     messages      |-> conversation_sessions[session_id]]]

\* a session is read
GetSessionInfo ==
  /\ \E session_id \in (ChatSessionIds \ {""}) \cup Uuids :
       info' = [endpoint |-> "GET /api/session", request |-> session_id,
                response |-> get_session_info(session_id)]
  /\ UNCHANGED <<conversation_sessions, stored, clock, reply, run, loader, rs, pp, cv, fetch, proc, tasks, gen, pdfs, cls, prompt, pdf>>

\* a chat request is handled
PostChat ==
  /\ clock <= MaxChats
  /\ \E request \in ChatRequests, env \in ChatEnvs :
       /\ handle_chat_query(request, env)
       /\ info' = [endpoint |-> "POST /api/chat", request |-> request]
  /\ UNCHANGED <<run, loader, rs, pp, cv, fetch, proc, tasks, gen, pdfs, cls, prompt, pdf>>

\* chat requests and session reads, one after the other
SessionNext == PostChat \/ GetSessionInfo

SpecSession == ChatInit /\ [][SessionNext]_vars

\* the sessions other than sid are the same before and after the step
OthersUnchanged(sid) ==
  /\ DOMAIN conversation_sessions' \ {sid} = DOMAIN conversation_sessions \ {sid}
  /\ \A other \in DOMAIN conversation_sessions \ {sid} :
       conversation_sessions'[other] = conversation_sessions[other]

\* the step appends one turn, that of the request and of the response
\* returned, to the session of the reply, and keeps the most recent turns
AppendsOwnTurn(request) ==
  LET sid == reply'.content.session_id
      old == IF sid \in DOMAIN conversation_sessions THEN conversation_sessions[sid] ELSE <<>>
  IN  /\ request.session_id # "" => sid = request.session_id
      /\ request.session_id = "" => sid \notin DOMAIN conversation_sessions
      /\ sid \in DOMAIN conversation_sessions'
      /\ \E turn \in {conversation_sessions'[sid][Len(conversation_sessions'[sid])]} :
           /\ turn.user = request.message
           /\ format_response_for_frontend(turn.assistant) = reply'.content.response
           /\ conversation_sessions'[sid] = LastN(Append(old, turn), SessionCap)
      /\ OthersUnchanged(sid)

\* C30: a chat request that completes appends exactly one turn, its message
\* and its response, to its own session; one that fails leaves the store
\* unchanged; every other session is unchanged in both cases; and reading a
\* session neither creates nor modifies one.
C30_ChatChangesOnlyItsSession ==
  [][IF info'.endpoint = "POST /api/chat" /\ reply'.status_code = 200
     THEN AppendsOwnTurn(info'.request)
     ELSE conversation_sessions' = conversation_sessions]_vars
\* a request has been answered for a second session and a session was read
C30_Witness ==
  /\ reply # Idle /\ reply.status_code = 200
  /\ Cardinality(DOMAIN conversation_sessions) >= 2
  /\ Len(conversation_sessions[reply.content.session_id]) >= 2
  /\ info # Idle /\ info.endpoint = "GET /api/session" /\ info.response.status_code = 200

====
